---------------------------- MODULE Spec2Model ----------------------------
(***************************************************************************)
(* CableForge: the Electrical Calculation Engine                           *)
(* (src-tauri/src/calculations/mod.rs) and the Cable Validation Engine     *)
(* (src-tauri/src/validation/mod.rs), and the calculation commands that    *)
(* call the former (src-tauri/src/commands.rs).                            *)
(*                                                                         *)
(* Representation of the Rust values:                                      *)
(*   String      a sequence of one-character strings, so that trim,        *)
(*               to_uppercase, contains, replace and parse are computed    *)
(*   Option<T>   <<>> for None, <<x>> for Some(x)                          *)
(*   Result<T,E> [status |-> "ok"|"err", value |-> <<T>>, error |-> <<E>>] *)
(*   format!     [text |-> the template, args |-> the arguments]           *)
(*   f64         exact fixed point, the unit stated at each field:         *)
(*                 voltage                  volts                          *)
(*                 current                  amperes                        *)
(*                 distance                 feet, a multiple of 50         *)
(*                 power_factor             twentieths (17 is 0.85)        *)
(*                 max_voltage_drop_percent percent                        *)
(*                 resistance               1/10000 ohm per 1000 ft        *)
(*                 voltage_drop_volts       1/4000000 volt                 *)
(*                 voltage_drop_percentage  a quotient [num, den] whose    *)
(*                   denominator may be zero or negative, as the IEEE      *)
(*                   division of the code gives inf or NaN for voltage 0   *)
(***************************************************************************)
EXTENDS Integers, Sequences, FiniteSets, TLC

VARIABLES
    calc,       \* the request of the calculation commands
    vdResult,   \* <<>> or <<the result of calculate_voltage_drop(calc)>>
    minResult,  \* <<>> or <<the result of calculate_minimum_conductor_size>>
    fedBack,    \* TRUE once the recommended size was put into calc
    cables,     \* the cable list handed to the validation engine
    cableRun,   \* <<>> or <<[index, results]>>: the last validate_cable call
    summary,    \* <<>> or <<the ValidationSummary of validate_all_cables>>
    request,    \* <<>> or <<[cmd, args]>>: the command the frontend invoked
    response,   \* <<>> or <<the Result the command returned>>
    calls       \* the engine calls in progress, each with its own locals

vars == <<calc, vdResult, minResult, fedBack, cables, cableRun, summary,
          request, response, calls>>

calcVars == <<calc, vdResult, minResult, fedBack>>
valVars == <<cables, cableRun, summary>>
hostVars == <<request, response, calls>>

-----------------------------------------------------------------------------
(* Option and Result *)

None == <<>>
Some(x) == <<x>>
IsSome(o) == Len(o) = 1
Unwrap(o) == o[1]

unwrap_or(o, default) == IF IsSome(o) THEN Unwrap(o) ELSE default

Ok(v) == [status |-> "ok", value |-> <<v>>, error |-> <<>>]
Err(e) == [status |-> "err", value |-> <<>>, error |-> <<e>>]
IsOk(r) == r.status = "ok"

Format(template, arguments) == [text |-> template, args |-> arguments]

-----------------------------------------------------------------------------
(* Strings *)

LowerLetters ==
    <<"a", "b", "c", "d", "e", "f", "g", "h", "i", "j", "k", "l", "m",
      "n", "o", "p", "q", "r", "s", "t", "u", "v", "w", "x", "y", "z">>

UpperLetters ==
    <<"A", "B", "C", "D", "E", "F", "G", "H", "I", "J", "K", "L", "M",
      "N", "O", "P", "Q", "R", "S", "T", "U", "V", "W", "X", "Y", "Z">>

Digits == {"0", "1", "2", "3", "4", "5", "6", "7", "8", "9"}

Whitespace == {" "}

\* the upper-case letter of each lower-case letter, and the reverse
UpperOf ==
    [ch \in {LowerLetters[i] : i \in 1..Len(LowerLetters)} |->
        UpperLetters[CHOOSE i \in 1..Len(LowerLetters) : LowerLetters[i] = ch]]

LowerOf ==
    [ch \in {UpperLetters[i] : i \in 1..Len(UpperLetters)} |->
        LowerLetters[CHOOSE i \in 1..Len(UpperLetters) : UpperLetters[i] = ch]]

char_to_uppercase(ch) == IF ch \in DOMAIN UpperOf THEN UpperOf[ch] ELSE ch

char_to_ascii_lowercase(ch) == IF ch \in DOMAIN LowerOf THEN LowerOf[ch] ELSE ch

to_uppercase(s) == [i \in 1..Len(s) |-> char_to_uppercase(s[i])]

to_ascii_lowercase(s) == [i \in 1..Len(s) |-> char_to_ascii_lowercase(s[i])]

RECURSIVE trim_start(_)
trim_start(s) ==
    IF s # <<>> /\ Head(s) \in Whitespace THEN trim_start(Tail(s)) ELSE s

RECURSIVE trim_end(_)
trim_end(s) ==
    IF s # <<>> /\ s[Len(s)] \in Whitespace
    THEN trim_end(SubSeq(s, 1, Len(s) - 1))
    ELSE s

trim(s) == trim_end(trim_start(s))

contains(s, pattern) ==
    \E i \in 0..(Len(s) - Len(pattern)) : SubSeq(s, i + 1, i + Len(pattern)) = pattern

IsNotHash(ch) == ch # "#"

\* str::replace("#", "")
remove_hash(s) == SelectSeq(s, IsNotHash)

\* str::parse::<i32>().is_ok(): an optional sign and at least one digit; the
\* inputs of this model have at most nine digits, so none overflows an i32.
parse_i32_is_ok(s) ==
    LET digits == IF s # <<>> /\ Head(s) \in {"+", "-"} THEN Tail(s) ELSE s
    IN  /\ digits # <<>>
        /\ Len(digits) <= 9
        /\ \A i \in 1..Len(digits) : digits[i] \in Digits

\* str::to_lowercase; on the characters of the model it is the ASCII mapping
to_lowercase(s) == [i \in 1..Len(s) |-> char_to_ascii_lowercase(s[i])]

eq_ignore_ascii_case(a, b) == to_ascii_lowercase(a) = to_ascii_lowercase(b)

is_blank(s) == trim(s) = <<>>

-----------------------------------------------------------------------------
(* calculations/mod.rs: the conductor resistance table *)

AWG == <<"A", "W", "G">>
MCM == <<"M", "C", "M">>
HASH == <<"#">>
AWG_SUFFIX == <<" ", "A", "W", "G">>

\* ElectricalCalculator::new: (copper, aluminum) in 1/10000 ohm per 1000 ft
conductor_resistance ==
    << [size |-> <<"1", "8", " ", "A", "W", "G">>, copper |-> 77700, aluminum |-> 128000],
       [size |-> <<"1", "6", " ", "A", "W", "G">>, copper |-> 48900, aluminum |-> 80500],
       [size |-> <<"1", "4", " ", "A", "W", "G">>, copper |-> 30700, aluminum |-> 50600],
       [size |-> <<"1", "2", " ", "A", "W", "G">>, copper |-> 19300, aluminum |-> 31800],
       [size |-> <<"1", "0", " ", "A", "W", "G">>, copper |-> 12100, aluminum |-> 20000],
       [size |-> <<"8", " ", "A", "W", "G">>, copper |-> 7640, aluminum |-> 12600],
       [size |-> <<"6", " ", "A", "W", "G">>, copper |-> 4910, aluminum |-> 8080],
       [size |-> <<"4", " ", "A", "W", "G">>, copper |-> 3080, aluminum |-> 5080],
       [size |-> <<"3", " ", "A", "W", "G">>, copper |-> 2450, aluminum |-> 4030],
       [size |-> <<"2", " ", "A", "W", "G">>, copper |-> 1940, aluminum |-> 3190],
       [size |-> <<"1", " ", "A", "W", "G">>, copper |-> 1540, aluminum |-> 2530],
       [size |-> <<"1", "/", "0", " ", "A", "W", "G">>, copper |-> 1220, aluminum |-> 2010],
       [size |-> <<"2", "/", "0", " ", "A", "W", "G">>, copper |-> 967, aluminum |-> 1590],
       [size |-> <<"3", "/", "0", " ", "A", "W", "G">>, copper |-> 766, aluminum |-> 1260],
       [size |-> <<"4", "/", "0", " ", "A", "W", "G">>, copper |-> 608, aluminum |-> 1000],
       [size |-> <<"2", "5", "0", " ", "M", "C", "M">>, copper |-> 515, aluminum |-> 847],
       [size |-> <<"3", "0", "0", " ", "M", "C", "M">>, copper |-> 429, aluminum |-> 707],
       [size |-> <<"3", "5", "0", " ", "M", "C", "M">>, copper |-> 367, aluminum |-> 605],
       [size |-> <<"4", "0", "0", " ", "M", "C", "M">>, copper |-> 321, aluminum |-> 529],
       [size |-> <<"5", "0", "0", " ", "M", "C", "M">>, copper |-> 258, aluminum |-> 424],
       [size |-> <<"6", "0", "0", " ", "M", "C", "M">>, copper |-> 214, aluminum |-> 353],
       [size |-> <<"7", "5", "0", " ", "M", "C", "M">>, copper |-> 171, aluminum |-> 282],
       [size |-> <<"1", "0", "0", "0", " ", "M", "C", "M">>, copper |-> 129, aluminum |-> 212] >>

table_contains_key(key) ==
    \E i \in 1..Len(conductor_resistance) : conductor_resistance[i].size = key

table_get(key) ==
    conductor_resistance[CHOOSE i \in 1..Len(conductor_resistance) :
                             conductor_resistance[i].size = key]

\* the normalization without the upper-casing
normalize_conductor_size_case_sensitive(size) ==
    LET size_upper == trim(size)
    IN  IF contains(size_upper, AWG) THEN size_upper
        ELSE IF contains(size_upper, MCM) THEN size_upper
        ELSE IF contains(size_upper, HASH) THEN trim(remove_hash(size_upper)) \o AWG_SUFFIX
        ELSE IF parse_i32_is_ok(size_upper) THEN size_upper \o AWG_SUFFIX
        ELSE size_upper

normalize_conductor_size(size) ==
    LET size_upper == trim(to_uppercase(size))
    IN  IF contains(size_upper, AWG) THEN size_upper
        ELSE IF contains(size_upper, MCM) THEN size_upper
        ELSE IF contains(size_upper, HASH) THEN trim(remove_hash(size_upper)) \o AWG_SUFFIX
        ELSE IF parse_i32_is_ok(size_upper) THEN size_upper \o AWG_SUFFIX
        ELSE size_upper

\* the lookup reporting the normalized size in its error
get_conductor_resistance_reporting_normalized(size, material) ==
    LET size_normalized == normalize_conductor_size(size)
    IN  IF table_contains_key(size_normalized)
        THEN IF material = "Copper"
             THEN Ok(table_get(size_normalized).copper)
             ELSE Ok(table_get(size_normalized).aluminum)
        ELSE Err(Format("Unknown conductor size: {}", <<size_normalized>>))

get_conductor_resistance(size, material) ==
    LET size_normalized == normalize_conductor_size(size)
    IN  IF table_contains_key(size_normalized)
        THEN IF material = "Copper"
             THEN Ok(table_get(size_normalized).copper)
             ELSE Ok(table_get(size_normalized).aluminum)
        ELSE Err(Format("Unknown conductor size: {}", <<size>>))

-----------------------------------------------------------------------------
(* calculations/mod.rs: voltage drop *)

\* voltage_drop_volts is counted in 1/VoltsScale volt: distance / 1000.0 is
\* (distance / 50) twentieths, a resistance is in 1/10000 ohm and a power factor
\* in twentieths.
VoltsScale == 20 * 10000 * 20

DefaultPowerFactor == 17

Good == "Good"
Warning == "Warning"
Error == "Error"

\* a / b <= k for the f64 quotient a / b: for b = 0 the quotient is -inf, +inf
\* or NaN, and a comparison with NaN is false.
QuotLe(q, k) ==
    IF q.den > 0 THEN q.num <= k * q.den
    ELSE IF q.den < 0 THEN q.num >= k * q.den
    ELSE q.num < 0

\* the conversion to thousands of feet as a division of integers
distance_factor_whole_thousands(c) == (c.distance \div 1000) * 20

distance_factor(c) == c.distance \div 50

circuit_factor_by_phase(c) == IF c.number_of_conductors = 3 THEN 3 ELSE 2

circuit_factor(c) == 2

\* a power factor of zero taken as given
pf_factor_zero_as_given(c) == IF c.power_factor >= 0 THEN c.power_factor ELSE DefaultPowerFactor

pf_factor(c) == IF c.power_factor > 0 THEN c.power_factor ELSE DefaultPowerFactor

voltage_drop_volts(c, resistance) ==
    circuit_factor(c) * c.current * distance_factor(c) * resistance * pf_factor(c)

\* (voltage_drop_volts / calc.voltage) * 100.0, in percent
voltage_drop_percentage(c, drop) ==
    [num |-> drop, den |-> c.voltage * (VoltsScale \div 100)]

severity_exclusive(percentage) ==
    IF QuotLe(percentage, 3) /\ ~(percentage.den # 0 /\ percentage.num = 3 * percentage.den)
    THEN Good
    ELSE IF QuotLe(percentage, 5) /\ ~(percentage.den # 0 /\ percentage.num = 5 * percentage.den)
    THEN Warning
    ELSE Error

severity_of(percentage) ==
    IF QuotLe(percentage, 3) THEN Good
    ELSE IF QuotLe(percentage, 5) THEN Warning
    ELSE Error

compliance_status_of(severity) ==
    CASE severity = Good -> "Compliant with NEC recommendations (<=3%)"
      [] severity = Warning -> "Acceptable but high (3-5%, consider larger conductor)"
      [] severity = Error -> "Exceeds NEC recommendations (>5%, larger conductor required)"

calculate_voltage_drop(c) ==
    LET resistance == get_conductor_resistance(c.conductor_size, c.material)
    IN  IF ~IsOk(resistance) THEN Err(Unwrap(resistance.error))
        ELSE LET drop == voltage_drop_volts(c, Unwrap(resistance.value))
                 percentage == voltage_drop_percentage(c, drop)
                 severity == severity_of(percentage)
             IN  Ok([voltage_drop_volts |-> drop,
                     voltage_drop_percentage |-> percentage,
                     line_to_line_voltage_drop |-> drop,
                     severity |-> severity,
                     compliance_status |-> compliance_status_of(severity)])

-----------------------------------------------------------------------------
(* calculations/mod.rs: minimum conductor size *)

copper_sizes ==
    << <<"1", "0", "0", "0", " ", "M", "C", "M">>,
       <<"7", "5", "0", " ", "M", "C", "M">>,
       <<"6", "0", "0", " ", "M", "C", "M">>,
       <<"5", "0", "0", " ", "M", "C", "M">>,
       <<"4", "0", "0", " ", "M", "C", "M">>,
       <<"3", "5", "0", " ", "M", "C", "M">>,
       <<"3", "0", "0", " ", "M", "C", "M">>,
       <<"2", "5", "0", " ", "M", "C", "M">>,
       <<"4", "/", "0", " ", "A", "W", "G">>,
       <<"3", "/", "0", " ", "A", "W", "G">>,
       <<"2", "/", "0", " ", "A", "W", "G">>,
       <<"1", "/", "0", " ", "A", "W", "G">>,
       <<"1", " ", "A", "W", "G">>,
       <<"2", " ", "A", "W", "G">>,
       <<"3", " ", "A", "W", "G">>,
       <<"4", " ", "A", "W", "G">>,
       <<"6", " ", "A", "W", "G">>,
       <<"8", " ", "A", "W", "G">>,
       <<"1", "0", " ", "A", "W", "G">>,
       <<"1", "2", " ", "A", "W", "G">>,
       <<"1", "4", " ", "A", "W", "G">>,
       <<"1", "6", " ", "A", "W", "G">>,
       <<"1", "8", " ", "A", "W", "G">> >>

\* the aluminum list continued down to 18 AWG
aluminum_sizes_down_to_18_awg == copper_sizes

aluminum_sizes == SubSeq(copper_sizes, 1, 20)

\* the lists from the smallest size to the largest
sizes_for_smallest_first(material) ==
    LET sizes == IF material = "Copper" THEN copper_sizes ELSE aluminum_sizes
    IN  [i \in 1..Len(sizes) |-> sizes[Len(sizes) + 1 - i]]

sizes_for(material) == IF material = "Copper" THEN copper_sizes ELSE aluminum_sizes

\* voltage * (max_voltage_drop_percent / 100.0), in 1/VoltsScale volt
max_voltage_drop_as_volts(voltage, max_voltage_drop_percent) ==
    max_voltage_drop_percent * VoltsScale

max_voltage_drop(voltage, max_voltage_drop_percent) ==
    voltage * max_voltage_drop_percent * (VoltsScale \div 100)

size_calc(voltage, current, distance, material, power_factor, size) ==
    [voltage |-> voltage, current |-> current, distance |-> distance,
     conductor_size |-> size, material |-> material,
     power_factor |-> power_factor, number_of_conductors |-> 2]

\* the loop giving up at the first size that is over the budget
size_search_first_only(sizes, i, voltage, current, distance, material, budget, power_factor) ==
    LET result == calculate_voltage_drop(
                      size_calc(voltage, current, distance, material,
                                power_factor, sizes[i]))
    IN  IF IsOk(result) /\ Unwrap(result.value).voltage_drop_volts <= budget
        THEN Ok(sizes[i])
        ELSE Err(Format("No standard conductor size meets the voltage drop requirement", <<>>))

\* the for loop of calculate_minimum_conductor_size, from position i on
RECURSIVE size_search(_, _, _, _, _, _, _, _)
size_search(sizes, i, voltage, current, distance, material, budget, power_factor) ==
    IF i > Len(sizes)
    THEN Err(Format("No standard conductor size meets the voltage drop requirement", <<>>))
    ELSE LET result == calculate_voltage_drop(
                           size_calc(voltage, current, distance, material,
                                     power_factor, sizes[i]))
         IN  IF IsOk(result) /\ Unwrap(result.value).voltage_drop_volts <= budget
             THEN Ok(sizes[i])
             ELSE size_search(sizes, i + 1, voltage, current, distance, material,
                              budget, power_factor)

calculate_minimum_conductor_size(voltage, current, distance, material, max_percent, power_factor) ==
    size_search(sizes_for(material), 1, voltage, current, distance, material,
                max_voltage_drop(voltage, max_percent), power_factor)

-----------------------------------------------------------------------------
(* calculations/mod.rs: current from power *)

\* 1.732 in thousandths
SqrtThree == 1732

\* a phase count other than 1 and 3 taken as three-phase
calculate_current_from_power_three_phase_default(power_watts, voltage, power_factor, phases) ==
    CASE phases = 1 -> [num |-> power_watts * 20, den |-> voltage * power_factor]
      [] OTHER -> [num |-> power_watts * 20 * 1000,
                   den |-> voltage * SqrtThree * power_factor]

\* The current in amperes is the quotient num / den: a power factor is in
\* twentieths, so P / (V x PF) is 20 P / (V x power_factor). A denominator of
\* zero is the IEEE division by zero of the code: inf or NaN, not an error.
calculate_current_from_power(power_watts, voltage, power_factor, phases) ==
    CASE phases = 1 -> [num |-> power_watts * 20, den |-> voltage * power_factor]
      [] phases = 3 -> [num |-> power_watts * 20 * 1000,
                        den |-> voltage * SqrtThree * power_factor]
      [] OTHER -> [num |-> power_watts * 20, den |-> voltage * power_factor]

-----------------------------------------------------------------------------
(* The calculation requests *)

Str12AWG == <<"1", "2", " ", "A", "W", "G">>
Str10AWG == <<"1", "0", " ", "A", "W", "G">>
Str1000MCM == <<"1", "0", "0", "0", " ", "M", "C", "M">>

SizeInputs ==
    { Str12AWG,
      <<" ", "1", "2", " ", "a", "w", "g", " ">>,
      <<"#", "1", "2">>,
      <<"1", "2">>,
      Str10AWG,
      Str1000MCM,
      <<"1", "3">>,
      <<"x", "l">> }

Voltages == {-120, 0, 12, 120}
Currents == {-20, 0, 20}
Distances == {-100, 0, 100, 1000}
Materials == {"Copper", "Aluminum"}
PowerFactors == {-10, 0, 9, 15, 17, 24}
SizingPowerFactors == {0, 17, 24}
Percents == {-1, 0, 3, 5}
ConductorCounts == {2, 3}

\* requests that exercise calculate_voltage_drop
DropRequests ==
    [voltage : Voltages, current : Currents, distance : Distances,
     conductor_size : SizeInputs, material : Materials,
     power_factor : PowerFactors, number_of_conductors : ConductorCounts,
     max_voltage_drop_percent : {3}]

\* requests that exercise calculate_minimum_conductor_size
SizingRequests ==
    [voltage : Voltages, current : Currents, distance : Distances,
     conductor_size : {Str12AWG}, material : Materials,
     power_factor : SizingPowerFactors, number_of_conductors : {2},
     max_voltage_drop_percent : Percents]

\* the keys of the resistance table
TableKeys == {conductor_resistance[i].size : i \in 1..Len(conductor_resistance)}

\* the N of a key "N AWG"
NumberOf(key) == SubSeq(key, 1, Len(key) - Len(AWG_SUFFIX))

\* the ways of writing the key "N AWG": as it is, in lower case between
\* spaces, "#N" and "N"
FormsOf(key) ==
    {key, <<" ">> \o to_ascii_lowercase(key) \o <<" ">>, HASH \o NumberOf(key), NumberOf(key)}

TableSizeInputs ==
    TableKeys \cup UNION {FormsOf(key) : key \in {k \in TableKeys : contains(k, AWG)}}

\* requests that look up every size of the table, in every way of writing it
TableRequests ==
    [voltage : {120}, current : {0, 20}, distance : {0, 100},
     conductor_size : TableSizeInputs, material : Materials,
     power_factor : {17}, number_of_conductors : {2},
     max_voltage_drop_percent : {3}]

InitCalc ==
    /\ calc \in DropRequests \cup SizingRequests \cup TableRequests
    /\ vdResult = None
    /\ minResult = None
    /\ fedBack = FALSE
    /\ cables = <<>>
    /\ cableRun = None
    /\ summary = None
    /\ request = None
    /\ response = None
    /\ calls = <<>>

\* ElectricalCalculator::calculate_voltage_drop for the request
CalculateVoltageDrop ==
    /\ vdResult = None
    /\ vdResult' = Some(calculate_voltage_drop(
                       [f \in DOMAIN calc \ {"max_voltage_drop_percent"} |-> calc[f]]))
    /\ UNCHANGED <<calc, minResult, fedBack, valVars, hostVars>>

\* ElectricalCalculator::calculate_minimum_conductor_size for the request
CalculateMinimumConductorSize ==
    /\ minResult = None
    /\ minResult' = Some(calculate_minimum_conductor_size(
                        calc.voltage, calc.current, calc.distance, calc.material,
                        calc.max_voltage_drop_percent, calc.power_factor))
    /\ UNCHANGED <<calc, vdResult, fedBack, valVars, hostVars>>

\* the caller puts the recommended size into its next voltage-drop request
FeedBackRecommendedSize ==
    /\ minResult # None
    /\ IsOk(Unwrap(minResult))
    /\ ~fedBack
    /\ calc' = [calc EXCEPT !.conductor_size = Unwrap(Unwrap(minResult).value)]
    /\ vdResult' = None
    /\ fedBack' = TRUE
    /\ UNCHANGED <<minResult, valVars, hostVars>>

NextCalc ==
    \/ CalculateVoltageDrop
    \/ CalculateMinimumConductorSize
    \/ FeedBackRecommendedSize

SpecCalc == InitCalc /\ [][NextCalc]_vars

-----------------------------------------------------------------------------
(* validation/mod.rs: the per-cable checks *)

ValidationError == "Error"
ValidationWarning == "Warning"
ValidationInfo == "Info"

RECURSIVE Flatten(_)
Flatten(seqs) == IF seqs = <<>> THEN <<>> ELSE Head(seqs) \o Flatten(Tail(seqs))

\* the ValidationResult pushed for `cable`
Finding(cable, severity, validation_type, message, field, suggested_fix, override_allowed) ==
    [cable_id |-> cable.id,
     cable_tag |-> cable.tag,
     severity |-> severity,
     validation_type |-> validation_type,
     message |-> message,
     field |-> Some(field),
     suggested_fix |-> Some(suggested_fix),
     override_allowed |-> override_allowed]

\* one finding per cable of `list`, in order
FindingsFor(list, severity, validation_type, message, field, suggested_fix, override_allowed) ==
    [i \in 1..Len(list) |->
        Finding(list[i], severity, validation_type, message, field, suggested_fix,
                override_allowed)]

\* the required-field test without the trim
validate_required_fields_untrimmed(cable) ==
    IF cable.tag = <<>>
    THEN << Finding(cable, ValidationError, "RequiredField",
                    Format("Cable tag is required", <<>>), "tag",
                    Format("Enter a unique cable tag (e.g., C-001)", <<>>), FALSE) >>
    ELSE <<>>

validate_required_fields(cable) ==
    IF is_blank(cable.tag)
    THEN << Finding(cable, ValidationError, "RequiredField",
                    Format("Cable tag is required", <<>>), "tag",
                    Format("Enter a unique cable tag (e.g., C-001)", <<>>), FALSE) >>
    ELSE <<>>

\* the tag comparison lower-casing only the other cable's tag
tags_match_one_sided(other, cable) == to_ascii_lowercase(other.tag) = cable.tag

tags_match(other, cable) == eq_ignore_ascii_case(other.tag, cable.tag)

\* the filter closure of validate_duplicate_tag
is_duplicate_of(other, cable) == tags_match(other, cable) /\ other.id # cable.id

validate_duplicate_tag(cable, all_cables) ==
    IF is_blank(cable.tag) THEN <<>>
    ELSE LET IsDuplicate(other) == is_duplicate_of(other, cable)
             duplicates == SelectSeq(all_cables, IsDuplicate)
         IN  IF duplicates # <<>>
             THEN << Finding(cable, ValidationError, "DuplicateTag",
                             Format("Duplicate cable tag '{}' found", <<cable.tag>>), "tag",
                             Format("Change to unique tag or use auto-numbering", <<>>),
                             TRUE) >>
             ELSE <<>>

\* the voltage range test with the bounds themselves out of range
validate_voltage_format_exclusive(cable) ==
    IF IsSome(cable.voltage) /\ (Unwrap(cable.voltage) <= 0 \/ Unwrap(cable.voltage) >= 35000)
    THEN << Finding(cable, ValidationWarning, "InvalidValue",
                    Format("Voltage outside typical range (0-35kV)", <<>>), "voltage",
                    Format("Verify voltage rating is correct", <<>>), TRUE) >>
    ELSE <<>>

validate_voltage_format(cable) ==
    IF IsSome(cable.voltage) /\ (Unwrap(cable.voltage) < 0 \/ Unwrap(cable.voltage) > 35000)
    THEN << Finding(cable, ValidationWarning, "InvalidValue",
                    Format("Voltage outside typical range (0-35kV)", <<>>), "voltage",
                    Format("Verify voltage rating is correct", <<>>), TRUE) >>
    ELSE <<>>

validate_length_format(cable) ==
    IF IsSome(cable.length) /\ Unwrap(cable.length) < 0
    THEN << Finding(cable, ValidationError, "InvalidValue",
                    Format("Cable length cannot be negative", <<>>), "length",
                    Format("Enter a positive length value", <<>>), FALSE) >>
    ELSE IF IsSome(cable.length) /\ Unwrap(cable.length) > 10000
    THEN << Finding(cable, ValidationWarning, "InvalidValue",
                    Format("Cable length is unusually long (>10,000 ft)", <<>>), "length",
                    Format("Verify length is correct", <<>>), TRUE) >>
    ELSE <<>>

\* the spare-percentage Warning made final
validate_spare_format_not_overridable(cable) ==
    IF /\ IsSome(cable.spare_percentage)
       /\ (Unwrap(cable.spare_percentage) < 0 \/ Unwrap(cable.spare_percentage) > 100)
    THEN << Finding(cable, ValidationWarning, "InvalidValue",
                    Format("Spare percentage should be between 0-100%", <<>>),
                    "spare_percentage",
                    Format("Enter percentage as 0-100 (e.g., 10 for 10%)", <<>>), FALSE) >>
    ELSE <<>>

validate_spare_format(cable) ==
    IF /\ IsSome(cable.spare_percentage)
       /\ (Unwrap(cable.spare_percentage) < 0 \/ Unwrap(cable.spare_percentage) > 100)
    THEN << Finding(cable, ValidationWarning, "InvalidValue",
                    Format("Spare percentage should be between 0-100%", <<>>),
                    "spare_percentage",
                    Format("Enter percentage as 0-100 (e.g., 10 for 10%)", <<>>), TRUE) >>
    ELSE <<>>

validate_field_formats(cable) ==
    validate_voltage_format(cable) \o validate_length_format(cable)
        \o validate_spare_format(cable)

\* validate_cable returning at the first check that reports something
validate_cable_short_circuit(cable, all_cables) ==
    IF validate_required_fields(cable) # <<>> THEN validate_required_fields(cable)
    ELSE IF validate_duplicate_tag(cable, all_cables) # <<>>
    THEN validate_duplicate_tag(cable, all_cables)
    ELSE validate_field_formats(cable)

validate_cable(cable, all_cables) ==
    validate_required_fields(cable) \o validate_duplicate_tag(cable, all_cables)
        \o validate_field_formats(cable)

-----------------------------------------------------------------------------
(* validation/mod.rs: the segregation checks of one route *)

IS == <<"I", "S">>
IS_Signal == <<"I", "S", " ", "S", "i", "g", "n", "a", "l">>
Non_IS_Signal == <<"N", "o", "n", "-", "I", "S", " ", "S", "i", "g", "n", "a", "l">>
Power_120VAC == <<"P", "o", "w", "e", "r", " ", "1", "2", "0", "V", "A", "C">>
Power_240VAC == <<"P", "o", "w", "e", "r", " ", "2", "4", "0", "V", "A", "C">>
Power_480VAC == <<"P", "o", "w", "e", "r", " ", "4", "8", "0", "V", "A", "C">>
Power_600VAC == <<"P", "o", "w", "e", "r", " ", "6", "0", "0", "V", "A", "C">>
Control_Power_24VDC ==
    <<"C", "o", "n", "t", "r", "o", "l", " ", "P", "o", "w", "e", "r", " ",
      "2", "4", "V", "D", "C">>

is_power_function(cable) ==
    IsSome(cable.function) /\ Unwrap(cable.function) \in {"Power", "Lighting"}

\* the signal filter without "Communication"
is_signal_function_without_communication(cable) ==
    IsSome(cable.function) /\ Unwrap(cable.function) \in {"Signal", "Control"}

is_signal_function(cable) ==
    IsSome(cable.function)
        /\ Unwrap(cable.function) \in {"Signal", "Control", "Communication"}

\* the power/signal findings pushed for the power cables only
check_power_signal_separation_power_only(route, route_cables) ==
    LET power_cables == SelectSeq(route_cables, is_power_function)
        signal_cables == SelectSeq(route_cables, is_signal_function)
    IN  IF power_cables # <<>> /\ signal_cables # <<>>
        THEN FindingsFor(power_cables, ValidationWarning,
                 "SegregationViolation",
                 Format("Power and signal cables in same route '{}' (NEC 725.136)", <<route>>),
                 "route",
                 Format("Separate power and signal cables into different conduits per NEC",
                        <<>>),
                 TRUE)
        ELSE <<>>

check_power_signal_separation(route, route_cables) ==
    LET power_cables == SelectSeq(route_cables, is_power_function)
        signal_cables == SelectSeq(route_cables, is_signal_function)
    IN  IF power_cables # <<>> /\ signal_cables # <<>>
        THEN FindingsFor(power_cables \o signal_cables, ValidationWarning,
                 "SegregationViolation",
                 Format("Power and signal cables in same route '{}' (NEC 725.136)", <<route>>),
                 "route",
                 Format("Separate power and signal cables into different conduits per NEC",
                        <<>>),
                 TRUE)
        ELSE <<>>

\* the classes with exclusive upper bounds
voltage_class_exclusive(voltage) ==
    IF voltage < 50 THEN "Low Voltage (<50V)"
    ELSE IF voltage < 600 THEN "Medium Voltage (50-600V)"
    ELSE IF voltage < 1000 THEN "High Voltage (600-1000V)"
    ELSE "Extra High Voltage (>1000V)"

voltage_class(voltage) ==
    IF voltage <= 50 THEN "Low Voltage (<50V)"
    ELSE IF voltage <= 600 THEN "Medium Voltage (50-600V)"
    ELSE IF voltage <= 1000 THEN "High Voltage (600-1000V)"
    ELSE "Extra High Voltage (>1000V)"

\* the keys of voltage_groups
voltage_groups(route_cables) ==
    {voltage_class(Unwrap(route_cables[i].voltage)) :
        i \in {j \in 1..Len(route_cables) : IsSome(route_cables[j].voltage)}}

check_voltage_level_separation(route, route_cables) ==
    LET groups == voltage_groups(route_cables)
        has_low == "Low Voltage (<50V)" \in groups
        has_high == \/ "High Voltage (600-1000V)" \in groups
                    \/ "Extra High Voltage (>1000V)" \in groups
    IN  IF Cardinality(groups) > 1 /\ has_low /\ has_high
        THEN FindingsFor(route_cables, ValidationError, "SegregationViolation",
                 Format("Low voltage and high voltage cables in same route '{}' (NEC 300.3)",
                        <<route>>),
                 "route",
                 Format("Separate low voltage (<50V) from high voltage (>600V) cables", <<>>),
                 TRUE)
        ELSE <<>>

incompatible_pairs ==
    << <<IS_Signal, Non_IS_Signal>>,
       <<IS_Signal, Power_120VAC>>,
       <<IS_Signal, Power_240VAC>>,
       <<IS_Signal, Power_480VAC>>,
       <<IS_Signal, Power_600VAC>>,
       <<Control_Power_24VDC, Power_480VAC>>,
       <<Control_Power_24VDC, Power_600VAC>> >>

\* the class groups matched by substring
class_group_by_substring(route_cables, class) ==
    LET HasClass(cable) ==
            IsSome(cable.segregation_class) /\ contains(Unwrap(cable.segregation_class), class)
    IN  SelectSeq(route_cables, HasClass)

\* class_groups[class]: the cables of the route with exactly that class
class_group(route_cables, class) ==
    LET HasClass(cable) ==
            IsSome(cable.segregation_class) /\ Unwrap(cable.segregation_class) = class
    IN  SelectSeq(route_cables, HasClass)

pair_conflicts(route, route_cables, pair) ==
    LET class1 == pair[1]
        class2 == pair[2]
    IN  IF class_group(route_cables, class1) # <<>> /\ class_group(route_cables, class2) # <<>>
        THEN FindingsFor(class_group(route_cables, class1) \o class_group(route_cables, class2),
                 ValidationError, "SegregationViolation",
                 Format("Incompatible segregation classes '{}' and '{}' in route '{}'",
                        <<class1, class2, route>>),
                 "segregation_class",
                 Format("Separate {} from {} cables", <<class1, class2>>),
                 TRUE)
        ELSE <<>>

check_segregation_class_conflicts(route, route_cables) ==
    Flatten([k \in 1..Len(incompatible_pairs) |->
                pair_conflicts(route, route_cables, incompatible_pairs[k])])

\* a class deemed intrinsically safe only when its text begins with "IS"
is_cable_by_prefix(cable) ==
    /\ IsSome(cable.segregation_class)
    /\ Len(Unwrap(cable.segregation_class)) >= Len(IS)
    /\ SubSeq(Unwrap(cable.segregation_class), 1, Len(IS)) = IS

is_cable(cable) ==
    IsSome(cable.segregation_class) /\ contains(Unwrap(cable.segregation_class), IS)

\* the non-IS filter without the test for an absent class
non_is_cable_with_class_only(cable) ==
    IsSome(cable.segregation_class) /\ ~contains(Unwrap(cable.segregation_class), IS)

non_is_cable(cable) ==
    \/ IsSome(cable.segregation_class) /\ ~contains(Unwrap(cable.segregation_class), IS)
    \/ cable.segregation_class = None

IntrinsicSafetyText == "Intrinsically safe and non-IS cables in same route '{}' (NEC 504.30)"

check_intrinsic_safety_separation(route, route_cables) ==
    LET is_cables == SelectSeq(route_cables, is_cable)
        non_is_cables == SelectSeq(route_cables, non_is_cable)
    IN  IF is_cables # <<>> /\ non_is_cables # <<>>
        THEN FindingsFor(is_cables \o non_is_cables, ValidationError,
                 "SegregationViolation",
                 Format(IntrinsicSafetyText, <<route>>),
                 "segregation_class",
                 Format("IS cables must be separated from all non-IS circuits", <<>>),
                 FALSE)
        ELSE <<>>

check_route_segregation(route, route_cables) ==
    check_power_signal_separation(route, route_cables)
        \o check_voltage_level_separation(route, route_cables)
        \o check_segregation_class_conflicts(route, route_cables)
        \o check_intrinsic_safety_separation(route, route_cables)

-----------------------------------------------------------------------------
(* validation/mod.rs: the whole project *)

\* the keys of route_groups: the routes that are present and not blank
route_keys(all_cables) ==
    {Unwrap(all_cables[i].route) :
        i \in {j \in 1..Len(all_cables) :
                  IsSome(all_cables[j].route) /\ ~is_blank(Unwrap(all_cables[j].route))}}

\* the route groups keyed by the trimmed route
route_group_trimmed(all_cables, route) ==
    LET OnRoute(cable) == IsSome(cable.route) /\ trim(Unwrap(cable.route)) = trim(route)
    IN  SelectSeq(all_cables, OnRoute)

\* route_groups[route]: the cables with exactly that route, in input order
route_group(all_cables, route) ==
    LET OnRoute(cable) == cable.route = Some(route)
    IN  SelectSeq(all_cables, OnRoute)

\* the orders in which a HashMap may yield its keys
IterationOrders(keys) ==
    {order \in [1..Cardinality(keys) -> keys] :
        \A i, j \in 1..Cardinality(keys) : order[i] = order[j] => i = j}

\* `order` is the order in which route_groups is iterated
\* the segregation checks run for the first route group visited only
validate_segregation_rules_first_group(all_cables, order) ==
    IF order # <<>> /\ Len(route_group(all_cables, order[1])) > 1
    THEN check_route_segregation(order[1], route_group(all_cables, order[1]))
    ELSE <<>>

validate_segregation_rules(all_cables, order) ==
    Flatten([k \in 1..Len(order) |->
                IF Len(route_group(all_cables, order[k])) > 1
                THEN check_route_segregation(order[k], route_group(all_cables, order[k]))
                ELSE <<>>])

\* the count taken over the set of findings instead of the list
CountSeverity_distinct(results, severity) ==
    Cardinality({results[i] : i \in {j \in 1..Len(results) : results[j].severity = severity}})

CountSeverity(results, severity) ==
    Cardinality({i \in 1..Len(results) : results[i].severity = severity})

validate_all_cables(all_cables, order) ==
    LET all_results ==
            Flatten([i \in 1..Len(all_cables) |-> validate_cable(all_cables[i], all_cables)])
                \o validate_segregation_rules(all_cables, order)
    IN  [total_cables |-> Len(all_cables),
         error_count |-> CountSeverity(all_results, ValidationError),
         warning_count |-> CountSeverity(all_results, ValidationWarning),
         info_count |-> CountSeverity(all_results, ValidationInfo),
         results |-> all_results,
         validation_time |-> "Utc::now()"]

-----------------------------------------------------------------------------
(* The validation requests *)

MaxCables == 3

TagBlank == <<" ">>
TagC001 == <<"C", "-", "0", "0", "1">>
Tagc001 == <<"c", "-", "0", "0", "1">>
TagC002 == <<"C", "-", "0", "0", "2">>
RouteCT01 == <<"C", "T", "-", "0", "1">>
RouteCT02 == <<"C", "T", "-", "0", "2">>

DigitChars == <<"0", "1", "2", "3", "4", "5", "6", "7", "8", "9">>

\* a cable with only a tag and an id
BareCable(id, tag) ==
    [id |-> id, tag |-> tag, function |-> None, voltage |-> None, length |-> None,
     spare_percentage |-> None, segregation_class |-> None, route |-> None]

ListsOver(domain) == UNION {[1..n -> domain] : n \in 0..MaxCables}

\* lists whose cables differ in id and tag only
TagCables == {BareCable(id, tag) : id \in {None, Some(1), Some(2)},
                                   tag \in {TagBlank, TagC001, Tagc001, TagC002}}

TagLists == ListsOver(TagCables)

\* one cable with every combination of the format-checked fields, alone or
\* beside a second cable
FormatCables ==
    {[BareCable(Some(1), tag) EXCEPT !.voltage = v, !.length = l, !.spare_percentage = s] :
        tag \in {TagBlank, TagC001},
        v \in {None, Some(-1), Some(0), Some(35000), Some(35001)},
        l \in {None, Some(-1), Some(0), Some(10000), Some(10001)},
        s \in {None, Some(-1), Some(0), Some(100), Some(101)}}

FormatLists ==
    {<<c>> : c \in FormatCables}
        \cup {<<c, BareCable(Some(2), tag)>> : c \in FormatCables, tag \in {TagBlank, Tagc001}}

\* lists whose cables differ in route and segregation class; the cable at
\* position i has id i and tag C-00i
ClassCables ==
    [route : {None, Some(RouteCT01), Some(RouteCT02)},
     segregation_class : {None, Some(IS_Signal), Some(Non_IS_Signal), Some(Power_480VAC)}]

ClassLists ==
    {[i \in 1..Len(l) |->
         [BareCable(Some(i), <<"C", "-", "0", "0", DigitChars[i + 1]>>)
             EXCEPT !.route = l[i].route, !.segregation_class = l[i].segregation_class]] :
        l \in ListsOver(ClassCables)}

\* the cable at position i of the lists below has id i and tag C-00i
NumberedCable(i) == BareCable(Some(i), <<"C", "-", "0", "0", DigitChars[i + 1]>>)

\* lists of cables on one route that differ in tag and function: duplicate and
\* required-field findings together with segregation findings
ScenarioCables ==
    [tag : {TagBlank, TagC001, Tagc001}, function : {Some("Power"), Some("Signal")}]

ScenarioLists ==
    {[i \in 1..Len(l) |->
         [BareCable(Some(i), l[i].tag)
             EXCEPT !.route = Some(RouteCT01), !.function = l[i].function]] :
        l \in ListsOver(ScenarioCables)}

\* lists whose cables differ in route and function: every function on CT-01,
\* a power and a signal cable on CT-02
FunctionCables ==
    [route : {Some(RouteCT01)},
     function : {None, Some("Power"), Some("Lighting"), Some("Signal"), Some("Control"),
                 Some("Communication"), Some("Instrumentation")}]
        \cup [route : {Some(RouteCT02)}, function : {Some("Power"), Some("Signal")}]

FunctionLists ==
    {[i \in 1..Len(l) |->
         [NumberedCable(i) EXCEPT !.route = l[i].route, !.function = l[i].function]] :
        l \in ListsOver(FunctionCables)}

\* lists whose cables differ in route and voltage: the voltages on both sides
\* of each class boundary on CT-01, a low and a high one on CT-02
VoltageCables ==
    [route : {Some(RouteCT01)},
     voltage : {None, Some(50), Some(51), Some(600), Some(601), Some(1001)}]
        \cup [route : {Some(RouteCT02)}, voltage : {Some(50), Some(601)}]

VoltageLists ==
    {[i \in 1..Len(l) |->
         [NumberedCable(i) EXCEPT !.route = l[i].route, !.voltage = l[i].voltage]] :
        l \in ListsOver(VoltageCables)}

\* a class name that holds a table name without being one
IS_Signal_padded == IS_Signal \o <<" ">>

\* lists of cables on one route that differ in segregation class
PairClasses ==
    {None, Some(IS_Signal), Some(IS_Signal_padded), Some(Control_Power_24VDC),
     Some(Power_480VAC), Some(Power_600VAC)}

PairLists ==
    {[i \in 1..Len(l) |->
         [NumberedCable(i) EXCEPT !.route = Some(RouteCT01), !.segregation_class = l[i]]] :
        l \in ListsOver(PairClasses)}

\* lists whose cables conflict wherever they are grouped (IS Signal beside
\* Power 480VAC) and differ in route: absent, blank, CT-01, or CT-01 followed
\* by a space
RouteBlank == <<" ">>
RouteCT01_padded == RouteCT01 \o <<" ">>

RouteCables ==
    [route : {None, Some(RouteBlank), Some(RouteCT01), Some(RouteCT01_padded)},
     segregation_class : {Some(IS_Signal), Some(Power_480VAC)}]

RouteLists ==
    {[i \in 1..Len(l) |->
         [NumberedCable(i)
             EXCEPT !.route = l[i].route, !.segregation_class = l[i].segregation_class]] :
        l \in ListsOver(RouteCables)}

InitValidation ==
    /\ cables \in TagLists \cup FormatLists \cup ClassLists \cup ScenarioLists
    /\ cableRun = None
    /\ summary = None
    /\ request = None
    /\ response = None
    /\ calls = <<>>
    /\ calc = [voltage |-> 0, current |-> 0, distance |-> 0, conductor_size |-> <<>>,
               material |-> "Copper", power_factor |-> 0, number_of_conductors |-> 2,
               max_voltage_drop_percent |-> 0]
    /\ vdResult = None
    /\ minResult = None
    /\ fedBack = FALSE

\* CableValidator::validate_cable for a cable of the list, as validate_all_cables
\* and the validate_cable command call it
ValidateCable ==
    /\ cableRun = None
    /\ \E i \in 1..Len(cables) :
           cableRun' = Some([index |-> i, results |-> validate_cable(cables[i], cables)])
    /\ UNCHANGED <<cables, summary, calcVars, hostVars>>

\* CableValidator::validate_all_cables; the HashMap of route groups yields its
\* keys in an order the call does not control
ValidateAllCables ==
    /\ summary = None
    /\ \E order \in IterationOrders(route_keys(cables)) :
           summary' = Some(validate_all_cables(cables, order))
    /\ UNCHANGED <<cables, cableRun, calcVars, hostVars>>

NextValidation ==
    \/ ValidateCable
    \/ ValidateAllCables

SpecValidation == InitValidation /\ [][NextValidation]_vars

\* the validation engine on the lists that exercise the segregation checks
InitSegregation ==
    /\ cables \in FunctionLists \cup VoltageLists \cup PairLists \cup RouteLists
    /\ cableRun = None
    /\ summary = None
    /\ request = None
    /\ response = None
    /\ calls = <<>>
    /\ calc = [voltage |-> 0, current |-> 0, distance |-> 0, conductor_size |-> <<>>,
               material |-> "Copper", power_factor |-> 0, number_of_conductors |-> 2,
               max_voltage_drop_percent |-> 0]
    /\ vdResult = None
    /\ minResult = None
    /\ fedBack = FALSE

SpecSegregation == InitSegregation /\ [][NextValidation]_vars

\* a project of seven cables on two routes, with duplicate tags, a blank tag,
\* format violations and segregation conflicts on both routes
ProjectCables ==
    << [BareCable(Some(1), TagC001)
           EXCEPT !.route = Some(RouteCT01), !.function = Some("Power"),
                  !.segregation_class = Some(IS_Signal), !.voltage = Some(12)],
       [BareCable(Some(2), Tagc001)
           EXCEPT !.route = Some(RouteCT01), !.function = Some("Signal"),
                  !.segregation_class = Some(Non_IS_Signal), !.voltage = Some(601)],
       [BareCable(Some(3), TagC002)
           EXCEPT !.route = Some(RouteCT02), !.function = Some("Power"),
                  !.segregation_class = Some(Power_480VAC)],
       [BareCable(Some(4), TagBlank)
           EXCEPT !.route = Some(RouteCT02), !.function = Some("Control"),
                  !.segregation_class = Some(IS_Signal), !.length = Some(-1)],
       [BareCable(Some(5), TagC001)
           EXCEPT !.route = Some(RouteCT02), !.spare_percentage = Some(101)],
       [BareCable(Some(6), TagC002) EXCEPT !.voltage = Some(35001)],
       [BareCable(Some(7), Tagc001)
           EXCEPT !.route = Some(RouteCT01), !.function = Some("Lighting"),
                  !.segregation_class = Some(Power_480VAC), !.voltage = Some(12)] >>

MaxReordered == 4

\* the cables of the project at the positions `chosen`, in the project's order
Selection(chosen) ==
    LET upto[i \in 0..Len(ProjectCables)] ==
            IF i = 0 THEN <<>>
            ELSE IF i \in chosen THEN Append(upto[i - 1], ProjectCables[i])
            ELSE upto[i - 1]
    IN  upto[Len(ProjectCables)]

ReorderedLists ==
    {Selection(chosen) :
        chosen \in {s \in SUBSET (1..Len(ProjectCables)) : Cardinality(s) <= MaxReordered}}

\* the validation engine on selections of the project
InitReordered ==
    /\ cables \in ReorderedLists
    /\ cableRun = None
    /\ summary = None
    /\ request = None
    /\ response = None
    /\ calls = <<>>
    /\ calc = [voltage |-> 0, current |-> 0, distance |-> 0, conductor_size |-> <<>>,
               material |-> "Copper", power_factor |-> 0, number_of_conductors |-> 2,
               max_voltage_drop_percent |-> 0]
    /\ vdResult = None
    /\ minResult = None
    /\ fedBack = FALSE

SpecReordered == InitReordered /\ [][NextValidation]_vars

-----------------------------------------------------------------------------
(* commands.rs: the calculation commands *)

\* CommandError::Custom
Custom(e) == [kind |-> "Custom", message |-> e]

\* Result::map_err(|e| CommandError::Custom(e))
map_err_custom(r) == IF IsOk(r) THEN r ELSE Err(Custom(Unwrap(r.error)))

StrCopper == <<"c", "o", "p", "p", "e", "r">>
StrCu == <<"c", "u">>
StrAluminum == <<"a", "l", "u", "m", "i", "n", "u", "m">>
StrAl == <<"a", "l">>

\* the match on the material string without the conversion to lower case
conductor_material_case_sensitive(material) ==
    IF material \in {StrCopper, StrCu} THEN "Copper"
    ELSE IF material \in {StrAluminum, StrAl} THEN "Aluminum"
    ELSE "Copper"

\* let conductor_material = match material.to_lowercase().as_str() { ... }
conductor_material(material) ==
    LET lower == to_lowercase(material)
    IN  IF lower \in {StrCopper, StrCu} THEN "Copper"
        ELSE IF lower \in {StrAluminum, StrAl} THEN "Aluminum"
        ELSE "Copper"

\* the calculate_voltage_drop command
commands_calculate_voltage_drop(args) ==
    LET calculation ==
            [voltage |-> args.voltage,
             current |-> args.current,
             distance |-> args.distance,
             conductor_size |-> args.conductor_size,
             material |-> conductor_material(args.material),
             power_factor |-> unwrap_or(args.power_factor, DefaultPowerFactor),
             number_of_conductors |-> 2]
    IN  map_err_custom(calculate_voltage_drop(calculation))

\* the calculate_minimum_conductor_size command
commands_calculate_minimum_conductor_size(args) ==
    map_err_custom(calculate_minimum_conductor_size(
                       args.voltage, args.current, args.distance,
                       conductor_material(args.material),
                       args.max_voltage_drop_percent,
                       unwrap_or(args.power_factor, DefaultPowerFactor)))

DefaultPhases == 1

\* the calculate_current_from_power command
commands_calculate_current_from_power(args) ==
    Ok(calculate_current_from_power(
           args.power_watts, args.voltage,
           unwrap_or(args.power_factor, DefaultPowerFactor),
           unwrap_or(args.phases, DefaultPhases)))

\* the material strings a frontend sends: the four names in several
\* capitalisations, and strings that are no name
MaterialStrings ==
    { StrCopper, StrCu, StrAluminum, StrAl,
      <<"C", "o", "p", "p", "e", "r">>,
      <<"C", "O", "P", "P", "E", "R">>,
      <<"C", "U">>,
      <<"C", "u">>,
      <<"A", "l", "u", "m", "i", "n", "u", "m">>,
      <<"A", "L", "U", "M", "I", "N", "U", "M">>,
      <<"A", "L">>,
      <<"a", "L">>,
      <<>>,
      <<"g", "o", "l", "d">>,
      <<"a", "l", "u">>,
      <<"a", "l", " ">> }

Invoke(cmd, args) == [cmd |-> cmd, args |-> args]

DropCommands ==
    { Invoke("calculate_voltage_drop", args) :
        args \in [voltage : {120}, current : {20}, distance : {100},
                  conductor_size : {Str12AWG, <<"1", "3">>},
                  material : MaterialStrings,
                  power_factor : {None, Some(0), Some(17)}] }

SizingCommands ==
    { Invoke("calculate_minimum_conductor_size", args) :
        args \in [voltage : {12}, current : {0, 20}, distance : {100, 600},
                  material : MaterialStrings,
                  max_voltage_drop_percent : {3},
                  power_factor : {None, Some(17)}] }

Powers == {-1000, 0, 1000, 1500}
CommandVoltages == {-480, 0, 120, 480}
CommandPowerFactors == {None, Some(-10), Some(0), Some(17), Some(20)}
PhaseCounts == {None, Some(-1), Some(0), Some(1), Some(2), Some(3), Some(4)}

PowerCommands ==
    { Invoke("calculate_current_from_power", args) :
        args \in [power_watts : Powers, voltage : CommandVoltages,
                  power_factor : CommandPowerFactors, phases : PhaseCounts] }

InitCommands ==
    /\ request \in {Some(r) : r \in DropCommands \cup SizingCommands \cup PowerCommands}
    /\ response = None
    /\ calls = <<>>
    /\ cables = <<>>
    /\ cableRun = None
    /\ summary = None
    /\ calc = [voltage |-> 0, current |-> 0, distance |-> 0, conductor_size |-> <<>>,
               material |-> "Copper", power_factor |-> 0, number_of_conductors |-> 2,
               max_voltage_drop_percent |-> 0]
    /\ vdResult = None
    /\ minResult = None
    /\ fedBack = FALSE

Invoked(cmd) == request # None /\ Unwrap(request).cmd = cmd /\ response = None

CalculateVoltageDropCommand ==
    /\ Invoked("calculate_voltage_drop")
    /\ response' = Some(commands_calculate_voltage_drop(Unwrap(request).args))
    /\ UNCHANGED <<request, calls, calcVars, valVars>>

CalculateMinimumConductorSizeCommand ==
    /\ Invoked("calculate_minimum_conductor_size")
    /\ response' = Some(commands_calculate_minimum_conductor_size(Unwrap(request).args))
    /\ UNCHANGED <<request, calls, calcVars, valVars>>

CalculateCurrentFromPowerCommand ==
    /\ Invoked("calculate_current_from_power")
    /\ response' = Some(commands_calculate_current_from_power(Unwrap(request).args))
    /\ UNCHANGED <<request, calls, calcVars, valVars>>

NextCommands ==
    \/ CalculateVoltageDropCommand
    \/ CalculateMinimumConductorSizeCommand
    \/ CalculateCurrentFromPowerCommand

SpecCommands == InitCommands /\ [][NextCommands]_vars

-----------------------------------------------------------------------------
(* Both engines: calls in progress side by side *)

\* A call is a method of an engine running on its own stack: the references it
\* was given (cables, cable, calc), its position pc and its local variables
\* (results or all_results, the loop position next, resistance). Its steps are
\* the statements of the method; the steps of different calls interleave.
MaxCalls == 2

Call(op, cable_list, cable, calculation, pc) ==
    [op |-> op, cables |-> cable_list, cable |-> cable, calc |-> calculation,
     pc |-> pc, next |-> 1, results |-> <<>>, all_results |-> <<>>,
     resistance |-> None, returned |-> None]

NoCalculation ==
    [voltage |-> 0, current |-> 0, distance |-> 0, conductor_size |-> <<>>,
     material |-> "Copper", power_factor |-> 0, number_of_conductors |-> 2]

\* the cable lists handed to the validation calls
CallLists == {Selection({1, 2}), Selection({3, 4, 5})}

\* the requests handed to the calculation calls
CallCalculations ==
    {[NoCalculation EXCEPT !.voltage = 120, !.current = 20, !.distance = 100,
                           !.conductor_size = size, !.power_factor = 17] :
        size \in {Str12AWG, <<"1", "3">>}}

CallInputs ==
    {Call("validate_all_cables", l, 0, NoCalculation, "loop") : l \in CallLists}
        \cup UNION {{Call("validate_cable", l, i, NoCalculation, "required") :
                        i \in 1..Len(l)} : l \in CallLists}
        \cup {Call("calculate_voltage_drop", <<>>, 0, c, "resistance") :
                 c \in CallCalculations}

InitCalls ==
    /\ calls \in UNION {[1..n -> CallInputs] : n \in 1..MaxCalls}
    /\ request = None
    /\ response = None
    /\ cables = <<>>
    /\ cableRun = None
    /\ summary = None
    /\ calc = [voltage |-> 0, current |-> 0, distance |-> 0, conductor_size |-> <<>>,
               material |-> "Copper", power_factor |-> 0, number_of_conductors |-> 2,
               max_voltage_drop_percent |-> 0]
    /\ vdResult = None
    /\ minResult = None
    /\ fedBack = FALSE

At(id, op, pc) == calls[id].op = op /\ calls[id].pc = pc

\* a step of call `id` that leaves it as `after`
Steps(id, after) ==
    /\ calls' = [calls EXCEPT ![id] = after]
    /\ UNCHANGED <<request, response, calcVars, valVars>>

\* all_results as another call left it
all_results_shared(id) == calls[1].all_results

\* let mut all_results = Vec::new(): a local variable of the call
all_results_of(id) == calls[id].all_results

\* validate_all_cables: one turn of `for cable in cables`
ValidateAllCablesLoop ==
    \E id \in DOMAIN calls :
        /\ At(id, "validate_all_cables", "loop")
        /\ calls[id].next <= Len(calls[id].cables)
        /\ Steps(id, [calls[id] EXCEPT
                         !.all_results =
                             all_results_of(id)
                                 \o validate_cable(calls[id].cables[calls[id].next],
                                                   calls[id].cables),
                         !.next = calls[id].next + 1])

\* validate_all_cables: all_results.extend(self.validate_segregation_rules(cables))
ValidateAllCablesSegregation ==
    \E id \in DOMAIN calls :
        /\ At(id, "validate_all_cables", "loop")
        /\ calls[id].next > Len(calls[id].cables)
        /\ \E order \in IterationOrders(route_keys(calls[id].cables)) :
               Steps(id, [calls[id] EXCEPT
                             !.all_results =
                                 all_results_of(id)
                                     \o validate_segregation_rules(calls[id].cables, order),
                             !.pc = "count"])

\* validate_all_cables: the counts by severity and the ValidationSummary
ValidateAllCablesCount ==
    \E id \in DOMAIN calls :
        /\ At(id, "validate_all_cables", "count")
        /\ Steps(id, [calls[id] EXCEPT
                         !.returned =
                             Some([total_cables |-> Len(calls[id].cables),
                                   error_count |->
                                       CountSeverity(all_results_of(id), ValidationError),
                                   warning_count |->
                                       CountSeverity(all_results_of(id), ValidationWarning),
                                   info_count |->
                                       CountSeverity(all_results_of(id), ValidationInfo),
                                   results |-> all_results_of(id),
                                   validation_time |-> "Utc::now()"]),
                         !.pc = "done"])

\* validate_cable: results.extend(self.validate_required_fields(cable))
ValidateCableRequired ==
    \E id \in DOMAIN calls :
        /\ At(id, "validate_cable", "required")
        /\ Steps(id, [calls[id] EXCEPT
                         !.results = calls[id].results
                             \o validate_required_fields(calls[id].cables[calls[id].cable]),
                         !.pc = "duplicate"])

\* validate_cable: results.extend(self.validate_duplicate_tag(cable, all_cables))
ValidateCableDuplicate ==
    \E id \in DOMAIN calls :
        /\ At(id, "validate_cable", "duplicate")
        /\ Steps(id, [calls[id] EXCEPT
                         !.results = calls[id].results
                             \o validate_duplicate_tag(calls[id].cables[calls[id].cable],
                                                       calls[id].cables),
                         !.pc = "formats"])

\* validate_cable: results.extend(self.validate_field_formats(cable)); results
ValidateCableFormats ==
    \E id \in DOMAIN calls :
        /\ At(id, "validate_cable", "formats")
        /\ LET results == calls[id].results
                   \o validate_field_formats(calls[id].cables[calls[id].cable])
           IN  Steps(id, [calls[id] EXCEPT
                             !.results = results,
                             !.returned = Some(results),
                             !.pc = "done"])

\* calculate_voltage_drop: let resistance = self.get_conductor_resistance(..)?
CalculateVoltageDropResistance ==
    \E id \in DOMAIN calls :
        /\ At(id, "calculate_voltage_drop", "resistance")
        /\ LET resistance == get_conductor_resistance(calls[id].calc.conductor_size,
                                                      calls[id].calc.material)
           IN  IF IsOk(resistance)
               THEN Steps(id, [calls[id] EXCEPT
                                  !.resistance = Some(Unwrap(resistance.value)),
                                  !.pc = "drop"])
               ELSE Steps(id, [calls[id] EXCEPT
                                  !.returned = Some(Err(Unwrap(resistance.error))),
                                  !.pc = "done"])

\* calculate_voltage_drop: the drop, its percentage, the severity and the result
CalculateVoltageDropResult ==
    \E id \in DOMAIN calls :
        /\ At(id, "calculate_voltage_drop", "drop")
        /\ LET drop == voltage_drop_volts(calls[id].calc, Unwrap(calls[id].resistance))
               percentage == voltage_drop_percentage(calls[id].calc, drop)
               severity == severity_of(percentage)
           IN  Steps(id, [calls[id] EXCEPT
                             !.returned =
                                 Some(Ok([voltage_drop_volts |-> drop,
                                          voltage_drop_percentage |-> percentage,
                                          line_to_line_voltage_drop |-> drop,
                                          severity |-> severity,
                                          compliance_status |->
                                              compliance_status_of(severity)])),
                             !.pc = "done"])

NextCalls ==
    \/ ValidateAllCablesLoop
    \/ ValidateAllCablesSegregation
    \/ ValidateAllCablesCount
    \/ ValidateCableRequired
    \/ ValidateCableDuplicate
    \/ ValidateCableFormats
    \/ CalculateVoltageDropResistance
    \/ CalculateVoltageDropResult

SpecCalls == InitCalls /\ [][NextCalls]_vars

-----------------------------------------------------------------------------
(* Both engines: a host that serves calculation and validation requests *)

Init ==
    \/ InitCalc
    \/ InitValidation
    \/ InitSegregation
    \/ InitReordered
    \/ InitCommands
    \/ InitCalls

Next == NextCalc \/ NextValidation \/ NextCommands \/ NextCalls

Spec == Init /\ [][Next]_vars

-----------------------------------------------------------------------------
(* Claims about the calculation engine, checked under SpecCalc *)

MinDone == minResult # None
MinOk == MinDone /\ IsOk(Unwrap(minResult))
MinSize == Unwrap(Unwrap(minResult).value)
DropDone == vdResult # None
DropOk == DropDone /\ IsOk(Unwrap(vdResult))
DropValue == Unwrap(Unwrap(vdResult).value)

\* voltage x max_voltage_drop_percent / 100, in 1/VoltsScale volt
Budget == calc.voltage * calc.max_voltage_drop_percent * (VoltsScale \div 100)

RequestSizes == sizes_for(calc.material)

PositionOf(size) == CHOOSE i \in 1..Len(RequestSizes) : RequestSizes[i] = size

\* the drop calculate_voltage_drop computes for the request with another size
DropFor(size) ==
    Unwrap(calculate_voltage_drop(
               [voltage |-> calc.voltage, current |-> calc.current,
                distance |-> calc.distance, conductor_size |-> size,
                material |-> calc.material, power_factor |-> calc.power_factor,
                number_of_conductors |-> 2]).value).voltage_drop_volts

Adequate(size) == DropFor(size) <= Budget

IsScenario ==
    /\ calc.voltage = 120
    /\ calc.current = 20
    /\ calc.distance = 100
    /\ calc.material = "Copper"
    /\ calc.power_factor = 17
    /\ calc.max_voltage_drop_percent = 3

\* C1: when calculate_minimum_conductor_size returns Ok(S), no size after S in
\* the material's largest-to-smallest list (no smaller standard size) has a
\* computed voltage drop within the budget voltage x percent / 100.
C1_SmallestAdequate ==
    MinOk =>
        \A j \in 1..Len(RequestSizes) :
            j > PositionOf(MinSize) => ~Adequate(RequestSizes[j])

\* C2: when calculate_minimum_conductor_size returns Ok(S), S is a standard
\* size and calculate_voltage_drop for S with the same inputs yields a drop of
\* at most voltage x percent / 100; for 120 V, 20 A, 100 ft, copper, 3 %,
\* PF 0.85 the size is not 12 AWG but a larger one whose drop is at most 3 %.
C2_WithinBudget ==
    /\ MinOk => /\ table_contains_key(MinSize)
                /\ contains(MinSize, AWG) \/ contains(MinSize, MCM)
    /\ (fedBack /\ DropDone) =>
           /\ DropOk
           /\ DropValue.voltage_drop_volts <= Budget
    /\ (MinDone /\ IsScenario) =>
           /\ MinOk
           /\ MinSize # Str12AWG
           /\ PositionOf(MinSize) < PositionOf(Str12AWG)
    /\ (fedBack /\ DropDone /\ IsScenario) =>
           DropValue.voltage_drop_volts <= 3 * calc.voltage * (VoltsScale \div 100)

C2_Witness ==
    /\ fedBack
    /\ DropOk
    /\ IsScenario
    /\ calc.conductor_size = MinSize

\* C3: whenever calculate_minimum_conductor_size returned Ok(S) for a
\* max_voltage_drop_percent of at most 3.0, calculate_voltage_drop for S with
\* the same inputs returns severity Good.
C3_RoundTripGood ==
    (fedBack /\ DropDone /\ calc.max_voltage_drop_percent <= 3) =>
        /\ DropOk
        /\ DropValue.severity = Good

\* C4: calculate_minimum_conductor_size returns the error "No standard
\* conductor size meets the voltage drop requirement" exactly when no size of
\* the material's list has a drop within the budget; for non-negative current
\* and distance that is exactly when 1000 MCM exceeds the budget.
C4_ErrorExactly ==
    MinDone =>
        /\ ~MinOk <=> \A j \in 1..Len(RequestSizes) : ~Adequate(RequestSizes[j])
        /\ ~MinOk =>
               Unwrap(Unwrap(minResult).error).text =
                   "No standard conductor size meets the voltage drop requirement"
        /\ (calc.current >= 0 /\ calc.distance >= 0) =>
               (~MinOk <=> DropFor(Str1000MCM) > Budget)

C4_Witness ==
    /\ MinDone
    /\ ~MinOk
    /\ calc.voltage > 0
    /\ calc.max_voltage_drop_percent > 0
    /\ calc.current > 0
    /\ calc.distance > 0

RequestResistance == Unwrap(get_conductor_resistance(calc.conductor_size, calc.material).value)

\* C5 as claimed: voltage_drop_volts = 2 x current x (distance / 1000) x
\* resistance x power_factor, with the power factor exactly as supplied.
C5_FormulaAsClaimed ==
    DropOk =>
        DropValue.voltage_drop_volts =
            2 * calc.current * (calc.distance \div 50) * RequestResistance
              * calc.power_factor

\* C5: voltage_drop_volts = 2 x current x (distance / 1000) x resistance x
\* the effective power factor (the supplied one if > 0, else 0.85), and
\* voltage_drop_percentage = voltage_drop_volts / voltage x 100; the factor 2
\* does not depend on number_of_conductors, so the request with the other
\* conductor count gives the identical result.
C5_Formula ==
    DropOk =>
        /\ DropValue.voltage_drop_volts =
               2 * calc.current * (calc.distance \div 50) * RequestResistance
                 * (IF calc.power_factor > 0 THEN calc.power_factor ELSE 17)
        /\ DropValue.voltage_drop_percentage.num = DropValue.voltage_drop_volts
        /\ DropValue.voltage_drop_percentage.den = calc.voltage * (VoltsScale \div 100)
        /\ \A n \in ConductorCounts :
               calculate_voltage_drop(
                   [voltage |-> calc.voltage, current |-> calc.current,
                    distance |-> calc.distance,
                    conductor_size |-> calc.conductor_size,
                    material |-> calc.material,
                    power_factor |-> calc.power_factor,
                    number_of_conductors |-> n]) = Unwrap(vdResult)

C5_Witness ==
    /\ DropOk
    /\ calc.number_of_conductors = 3
    /\ calc.power_factor <= 0
    /\ DropValue.voltage_drop_volts > 0

\* the f64 comparisons percentage <= k and percentage > k
PercentLe(p, k) ==
    \/ p.den > 0 /\ p.num <= k * p.den
    \/ p.den < 0 /\ p.num >= k * p.den
    \/ p.den = 0 /\ p.num < 0

PercentGt(p, k) ==
    \/ p.den > 0 /\ p.num > k * p.den
    \/ p.den < 0 /\ p.num < k * p.den
    \/ p.den = 0 /\ p.num > 0

\* C6: severity has inclusive upper bounds: percentage <= 3.0 is Good,
\* 3.0 < percentage <= 5.0 is Warning, percentage > 5.0 is Error, each with
\* its fixed compliance message; 120 V, 20 A, 100 ft, 12 AWG copper, PF 0.85
\* gives a drop between 6 V and 7 V, more than 5 %, severity Error.
C6_Severity ==
    DropOk =>
        LET p == DropValue.voltage_drop_percentage
            s == DropValue.severity
        IN  /\ PercentLe(p, 3) => s = Good
            /\ (PercentGt(p, 3) /\ PercentLe(p, 5)) => s = Warning
            /\ PercentGt(p, 5) => s = Error
            /\ s \in {Good, Warning, Error}
            /\ s = Good =>
                   DropValue.compliance_status =
                       "Compliant with NEC recommendations (<=3%)"
            /\ s = Warning =>
                   DropValue.compliance_status =
                       "Acceptable but high (3-5%, consider larger conductor)"
            /\ s = Error =>
                   DropValue.compliance_status =
                       "Exceeds NEC recommendations (>5%, larger conductor required)"
            /\ (IsScenario /\ calc.conductor_size = Str12AWG) =>
                   /\ DropValue.voltage_drop_volts > 6 * VoltsScale
                   /\ DropValue.voltage_drop_volts < 7 * VoltsScale
                   /\ PercentGt(p, 5)
                   /\ s = Error

\* a drop of exactly 3.0 %: 120 V, 20 A, 100 ft, 10 AWG aluminum, PF 0.45
C6_Witness ==
    /\ DropOk
    /\ calc.voltage > 0
    /\ DropValue.voltage_drop_percentage.num = 3 * DropValue.voltage_drop_percentage.den
    /\ DropValue.severity = Good

-----------------------------------------------------------------------------
(* Claims about the size lookup, checked under SpecCalc *)

Chars(digits) == [i \in 1..Len(digits) |-> DigitChars[digits[i] + 1]]

\* the 23 sizes of the table as the spec lists them: "N AWG", "N/0 AWG" and
\* "N MCM"
ClaimedAWGNumbers ==
    {Chars(<<1, 8>>), Chars(<<1, 6>>), Chars(<<1, 4>>), Chars(<<1, 2>>), Chars(<<1, 0>>),
     Chars(<<8>>), Chars(<<6>>), Chars(<<4>>), Chars(<<3>>), Chars(<<2>>), Chars(<<1>>)}

ClaimedOughtNumbers == {Chars(<<n>>) \o <<"/", "0">> : n \in 1..4}

ClaimedMCMNumbers ==
    {Chars(<<2, 5, 0>>), Chars(<<3, 0, 0>>), Chars(<<3, 5, 0>>), Chars(<<4, 0, 0>>),
     Chars(<<5, 0, 0>>), Chars(<<6, 0, 0>>), Chars(<<7, 5, 0>>), Chars(<<1, 0, 0, 0>>)}

ClaimedKeys ==
    {n \o <<" ", "A", "W", "G">> : n \in ClaimedAWGNumbers \cup ClaimedOughtNumbers}
        \cup {n \o <<" ", "M", "C", "M">> : n \in ClaimedMCMNumbers}

IsInteger(s) ==
    LET digits == IF s # <<>> /\ Head(s) \in {"+", "-"} THEN Tail(s) ELSE s
    IN  digits # <<>> /\ \A i \in 1..Len(digits) : digits[i] \in Digits

\* the normal form the spec describes for an input size
ExpectedKey(size) ==
    LET upper == trim(to_uppercase(size))
    IN  IF contains(upper, <<"A", "W", "G">>) \/ contains(upper, <<"M", "C", "M">>) THEN upper
        ELSE IF upper # <<>> /\ Head(upper) = "#" THEN Tail(upper) \o <<" ", "A", "W", "G">>
        ELSE IF IsInteger(upper) THEN upper \o <<" ", "A", "W", "G">>
        ELSE upper

\* C18: calculate_voltage_drop fails if and only if the conductor size, after
\* normalization, is not one of the 23 table keys; the failure is the error
\* "Unknown conductor size: <input>" with the original input string and no
\* result; for every size of the table and either material it succeeds.
C18_UnknownSize ==
    /\ Cardinality(ClaimedKeys) = 23
    /\ DropDone =>
           /\ ~DropOk <=> ExpectedKey(calc.conductor_size) \notin ClaimedKeys
           /\ ~DropOk =>
                  /\ Unwrap(vdResult).error =
                         <<Format("Unknown conductor size: {}", <<calc.conductor_size>>)>>
                  /\ Unwrap(vdResult).value = <<>>
           /\ DropOk => Unwrap(vdResult).error = <<>>
           /\ calc.conductor_size \in ClaimedKeys => DropOk

\* an unknown size whose normal form differs from the input
C18_Witness ==
    /\ DropDone
    /\ ~DropOk
    /\ ExpectedKey(calc.conductor_size) # calc.conductor_size
    /\ Unwrap(Unwrap(vdResult).error).args = <<calc.conductor_size>>

\* the smallest size of the table, in aluminum
C18_WitnessTable ==
    /\ DropOk
    /\ calc.conductor_size = Chars(<<1, 8>>) \o <<" ", "A", "W", "G">>
    /\ calc.material = "Aluminum"
    /\ DropValue.voltage_drop_volts > 0

\* what calculate_voltage_drop returns for the request with another size
ResultFor(size) ==
    calculate_voltage_drop(
        [voltage |-> calc.voltage, current |-> calc.current,
         distance |-> calc.distance, conductor_size |-> size,
         material |-> calc.material, power_factor |-> calc.power_factor,
         number_of_conductors |-> calc.number_of_conductors])

\* the forms of "N AWG" the claim lists: "N AWG", "n awg" between spaces,
\* "#N" and "N"
ClaimedForms(n) ==
    {n \o <<" ", "A", "W", "G">>, <<" ">> \o n \o <<" ", "a", "w", "g", " ">>, <<"#">> \o n, n}

\* the request's size resolves to the resistance of `key`
ResolvesLike(key) == DropOk /\ Unwrap(vdResult) = ResultFor(key)

\* the rules of C19: the input is looked up under its normal form: upper-cased
\* and trimmed, then unchanged if it holds "AWG" or "MCM", "#N" as "N AWG", a
\* bare integer N as "N AWG", anything else as it is
NormalizationRules ==
    /\ DropOk <=> IsOk(ResultFor(ExpectedKey(calc.conductor_size)))
    /\ DropOk => Unwrap(vdResult) = ResultFor(ExpectedKey(calc.conductor_size))

C19_WitnessLowerCase ==
    /\ DropOk
    /\ calc.conductor_size = <<" ", "1", "/", "0", " ", "a", "w", "g", " ">>
    /\ calc.current > 0
    /\ calc.distance > 0
    /\ Unwrap(vdResult) = ResultFor(<<"1", "/", "0", " ", "A", "W", "G">>)

\* the percentage calculate_voltage_drop returns for the request with another
\* current and distance
PercentageAt(current, distance) ==
    Unwrap(calculate_voltage_drop(
               [voltage |-> calc.voltage, current |-> current, distance |-> distance,
                conductor_size |-> calc.conductor_size, material |-> calc.material,
                power_factor |-> calc.power_factor,
                number_of_conductors |-> calc.number_of_conductors]).value
          ).voltage_drop_percentage

\* the f64 comparisons p <= q and p < q of two percentages over the same
\* voltage; over voltage 0 a percentage is +inf, -inf or, for a drop of 0, NaN,
\* and NaN compares false
Sign(n) == IF n > 0 THEN 1 ELSE IF n < 0 THEN -1 ELSE 0

SameVoltageLe(p, q) ==
    \/ p.den > 0 /\ p.num <= q.num
    \/ p.den < 0 /\ p.num >= q.num
    \/ p.den = 0 /\ p.num # 0 /\ q.num # 0 /\ Sign(p.num) <= Sign(q.num)

SameVoltageLt(p, q) ==
    \/ p.den > 0 /\ p.num < q.num
    \/ p.den < 0 /\ p.num > q.num
    \/ p.den = 0 /\ p.num # 0 /\ q.num # 0 /\ Sign(p.num) < Sign(q.num)

OtherCurrents == Currents \cup {10}
OtherDistances == Distances \cup {50}

\* C20 as claimed: for every valid size with copper, whatever the voltage, the
\* power factor and the other inputs, voltage_drop_percentage does not
\* decrease when the current alone or the distance alone grows.
C20_MonotoneAsClaimed ==
    (DropOk /\ calc.material = "Copper") =>
        LET p == DropValue.voltage_drop_percentage
        IN  /\ \A i \in OtherCurrents :
                   /\ i > calc.current => SameVoltageLe(p, PercentageAt(i, calc.distance))
                   /\ i < calc.current => SameVoltageLe(PercentageAt(i, calc.distance), p)
            /\ \A d \in OtherDistances :
                   /\ d > calc.distance => SameVoltageLe(p, PercentageAt(calc.current, d))
                   /\ d < calc.distance => SameVoltageLe(PercentageAt(calc.current, d), p)

\* C20: for every valid size with copper and a voltage > 0, the percentage
\* does not decrease when the current grows at a fixed distance >= 0, nor when
\* the distance grows at a fixed current >= 0, and it increases strictly (in
\* exact arithmetic) when that fixed distance or current is > 0.
C20_Monotone ==
    (DropOk /\ calc.material = "Copper" /\ calc.voltage > 0) =>
        LET p == DropValue.voltage_drop_percentage
        IN  /\ calc.distance >= 0 =>
                   \A i \in OtherCurrents :
                       /\ i > calc.current => SameVoltageLe(p, PercentageAt(i, calc.distance))
                       /\ i < calc.current => SameVoltageLe(PercentageAt(i, calc.distance), p)
            /\ calc.distance > 0 =>
                   \A i \in OtherCurrents :
                       /\ i > calc.current => SameVoltageLt(p, PercentageAt(i, calc.distance))
                       /\ i < calc.current => SameVoltageLt(PercentageAt(i, calc.distance), p)
            /\ calc.current >= 0 =>
                   \A d \in OtherDistances :
                       /\ d > calc.distance => SameVoltageLe(p, PercentageAt(calc.current, d))
                       /\ d < calc.distance => SameVoltageLe(PercentageAt(calc.current, d), p)
            /\ calc.current > 0 =>
                   \A d \in OtherDistances :
                       /\ d > calc.distance => SameVoltageLt(p, PercentageAt(calc.current, d))
                       /\ d < calc.distance => SameVoltageLt(PercentageAt(calc.current, d), p)

\* the smallest copper size at 20 A over 100 ft: less at 10 A and at 50 ft,
\* more at 1000 ft
C20_Witness ==
    /\ DropOk
    /\ calc.material = "Copper"
    /\ calc.conductor_size = Chars(<<1, 8>>) \o <<" ", "A", "W", "G">>
    /\ calc.voltage = 120
    /\ calc.current = 20
    /\ calc.distance = 100
    /\ SameVoltageLt(PercentageAt(10, 100), DropValue.voltage_drop_percentage)
    /\ SameVoltageLt(PercentageAt(20, 50), DropValue.voltage_drop_percentage)
    /\ SameVoltageLt(DropValue.voltage_drop_percentage, PercentageAt(20, 1000))

\* what calculate_voltage_drop returns for the request with another power factor
ResultWithPowerFactor(power_factor) ==
    calculate_voltage_drop(
        [voltage |-> calc.voltage, current |-> calc.current,
         distance |-> calc.distance, conductor_size |-> calc.conductor_size,
         material |-> calc.material, power_factor |-> power_factor,
         number_of_conductors |-> calc.number_of_conductors])

\* C21: a call of calculate_voltage_drop with a power factor <= 0 returns what
\* the call with power factor 0.85 returns (Ok for a known size, never an error
\* on account of the power factor); a power factor > 0, also one above 1, enters
\* the drop as supplied: the drop is 2 x current x distance / 1000 x resistance
\* x power_factor.
C21_PowerFactor ==
    DropDone =>
        /\ calc.power_factor <= 0 =>
               /\ Unwrap(vdResult) = ResultWithPowerFactor(17)
               /\ IsOk(Unwrap(vdResult))
                      = IsOk(get_conductor_resistance(calc.conductor_size, calc.material))
        /\ calc.power_factor > 0 /\ DropOk =>
               DropValue.voltage_drop_volts =
                   2 * calc.current * (calc.distance \div 50) * RequestResistance
                     * calc.power_factor

\* a call with power factor 0 and one with power factor -0.5 that succeeded
\* with a drop other than zero
C21_Witness ==
    /\ DropOk
    /\ calc.power_factor = 0
    /\ calc.current = 20
    /\ calc.distance = 100
    /\ DropValue.voltage_drop_volts > 0
    /\ DropValue = Unwrap(ResultWithPowerFactor(-10).value)

\* a call with power factor 1.2 whose drop exceeds that of power factor 1.0
C21_WitnessAboveOne ==
    /\ DropOk
    /\ calc.power_factor = 24
    /\ calc.current = 20
    /\ calc.distance = 100
    /\ DropValue.voltage_drop_volts > Unwrap(ResultWithPowerFactor(20).value).voltage_drop_volts

C26_WitnessError ==
    /\ MinDone
    /\ ~MinOk
    /\ calc.voltage = 12
    /\ calc.max_voltage_drop_percent = 3
    /\ calc.current = 20
    /\ calc.distance = 1000

\* outside the claim's range another size is returned
C26_WitnessOutside ==
    /\ MinOk
    /\ MinSize # Str1000MCM

ResistanceOf(size, material) ==
    IF material = "Copper" THEN table_get(size).copper ELSE table_get(size).aluminum

SmallerThan12AWG == {Chars(<<1, 4>>) \o AWG_SUFFIX, Chars(<<1, 6>>) \o AWG_SUFFIX,
                     Chars(<<1, 8>>) \o AWG_SUFFIX}

\* C27: the copper list has 23 sizes and the aluminum list 20, none of 14, 16
\* and 18 AWG; every size of either list is a key of the resistance table, so
\* every lookup of a sizing run succeeds; along each list, from 1000 MCM on,
\* the resistance of the list's material strictly increases; and in every
\* entry of the table the aluminum resistance exceeds the copper resistance.
C27_TableConsistency ==
    /\ Len(sizes_for("Copper")) = 23
    /\ Len(sizes_for("Aluminum")) = 20
    /\ \A i \in 1..Len(sizes_for("Aluminum")) :
           sizes_for("Aluminum")[i] \notin SmallerThan12AWG
    /\ \A material \in Materials :
           LET sizes == sizes_for(material)
           IN  /\ sizes[1] = Str1000MCM
               /\ \A i \in 1..Len(sizes) : table_contains_key(sizes[i])
               /\ \A i \in 1..(Len(sizes) - 1) :
                      ResistanceOf(sizes[i], material) < ResistanceOf(sizes[i + 1], material)
    /\ \A i \in 1..Len(conductor_resistance) :
           conductor_resistance[i].aluminum > conductor_resistance[i].copper
    /\ MinDone =>
           \A i \in 1..Len(RequestSizes) :
               IsOk(get_conductor_resistance(RequestSizes[i], calc.material))

\* a sizing run for aluminum that looked up every size of the list: none was
\* within the budget, the last one tried being 12 AWG
C27_Witness ==
    /\ MinDone
    /\ ~MinOk
    /\ calc.material = "Aluminum"
    /\ calc.voltage > 0
    /\ calc.current > 0
    /\ calc.distance > 0
    /\ RequestSizes[Len(RequestSizes)] = Str12AWG

-----------------------------------------------------------------------------
(* Claims about the commands, checked under SpecCommands *)

CommandDone(cmd) == request # None /\ Unwrap(request).cmd = cmd /\ response # None
Args == Unwrap(request).args
Returned == Unwrap(Unwrap(response).value)

\* the power factor and the phase count the command hands to the engine
GivenPowerFactor == IF Args.power_factor = None THEN 17 ELSE Unwrap(Args.power_factor)
GivenPhases == IF Args.phases = None THEN 1 ELSE Unwrap(Args.phases)

\* C22: calculate_current_from_power returns P / (V x PF) for phases = 1,
\* P / (V x 1.732 x PF) for phases = 3 (between 1.41 A and 1.42 A for 1000 W,
\* 480 V, PF 0.85), and for every other phase count what it returns for
\* phases = 1; the call never returns an error, a zero denominator included.
C22_CurrentFromPower ==
    CommandDone("calculate_current_from_power") =>
        /\ IsOk(Unwrap(response))
        /\ GivenPhases = 1 =>
               /\ Returned.num = 20 * Args.power_watts
               /\ Returned.den = Args.voltage * GivenPowerFactor
        /\ GivenPhases = 3 =>
               /\ Returned.num = 20 * 1000 * Args.power_watts
               /\ Returned.den = Args.voltage * 1732 * GivenPowerFactor
        /\ GivenPhases \notin {1, 3} =>
               Returned = calculate_current_from_power(
                              Args.power_watts, Args.voltage, GivenPowerFactor, 1)
        /\ (/\ GivenPhases = 3
            /\ Args.power_watts = 1000
            /\ Args.voltage = 480
            /\ GivenPowerFactor = 17) =>
               /\ 141 * Returned.den < 100 * Returned.num
               /\ 100 * Returned.num < 142 * Returned.den

\* the three-phase call for 1000 W, 480 V and power factor 0.85
C22_Witness ==
    /\ CommandDone("calculate_current_from_power")
    /\ Args.phases = Some(3)
    /\ Args.power_watts = 1000
    /\ Args.voltage = 480
    /\ Args.power_factor = Some(17)
    /\ Returned.den > 0

\* a two-phase call, and a call whose denominator is zero
C22_WitnessOtherPhases ==
    /\ CommandDone("calculate_current_from_power")
    /\ Args.phases = Some(2)
    /\ Args.power_watts = 1000
    /\ Returned.num = 20000
    /\ Returned.den = 0

MaterialCommandDone ==
    CommandDone("calculate_voltage_drop") \/ CommandDone("calculate_minimum_conductor_size")

\* the material is one of the names, whatever the case of its letters
Named(names) == \E name \in names : eq_ignore_ascii_case(Args.material, name)

\* what the command returns for the request with another material string
ReturnedFor(material) ==
    LET args == [Args EXCEPT !.material = material]
    IN  IF Unwrap(request).cmd = "calculate_voltage_drop"
        THEN commands_calculate_voltage_drop(args)
        ELSE commands_calculate_minimum_conductor_size(args)

\* what the engine returns for the request with the material resolved
EngineFor(material) ==
    IF Unwrap(request).cmd = "calculate_voltage_drop"
    THEN calculate_voltage_drop(
             [voltage |-> Args.voltage, current |-> Args.current,
              distance |-> Args.distance, conductor_size |-> Args.conductor_size,
              material |-> material,
              power_factor |-> unwrap_or(Args.power_factor, 17),
              number_of_conductors |-> 2])
    ELSE calculate_minimum_conductor_size(
             Args.voltage, Args.current, Args.distance, material,
             Args.max_voltage_drop_percent, unwrap_or(Args.power_factor, 17))

SameOutcome(command_result, engine_result) ==
    /\ IsOk(command_result) = IsOk(engine_result)
    /\ IsOk(engine_result) => command_result.value = engine_result.value
    /\ ~IsOk(engine_result) =>
           Unwrap(command_result.error).message = Unwrap(engine_result.error)

\* C25: the calculate_voltage_drop and calculate_minimum_conductor_size
\* commands compute with Aluminum when the material string is "aluminum" or
\* "al" in any capitalisation and with Copper for every other string
\* ("copper", "cu" and the unrecognised ones), so that the call returns what
\* the call with "aluminum", respectively "copper", returns.
C25_MaterialResolution ==
    MaterialCommandDone =>
        IF Named({StrAluminum, StrAl})
        THEN /\ SameOutcome(Unwrap(response), EngineFor("Aluminum"))
             /\ Unwrap(response) = ReturnedFor(StrAluminum)
        ELSE /\ SameOutcome(Unwrap(response), EngineFor("Copper"))
             /\ Unwrap(response) = ReturnedFor(StrCopper)

\* a voltage-drop call with "AL": its drop is not that of the call with "copper"
C25_Witness ==
    /\ CommandDone("calculate_voltage_drop")
    /\ Args.material = <<"A", "L">>
    /\ IsOk(Unwrap(response))
    /\ Unwrap(response) # ReturnedFor(StrCopper)

\* a sizing call with "gold" that returns a size where "aluminum" has none
C25_WitnessUnrecognised ==
    /\ CommandDone("calculate_minimum_conductor_size")
    /\ Args.material = <<"g", "o", "l", "d">>
    /\ IsOk(Unwrap(response))
    /\ ~IsOk(ReturnedFor(StrAluminum))

-----------------------------------------------------------------------------
(* Claims about calls side by side, checked under SpecCalls *)

\* what the call returns when it runs alone on its input, from start to end
AloneReturns(call, returned) ==
    CASE call.op = "validate_all_cables" ->
             \E order \in IterationOrders(route_keys(call.cables)) :
                 returned = validate_all_cables(call.cables, order)
      [] call.op = "validate_cable" ->
             returned = validate_cable(call.cables[call.cable], call.cables)
      [] call.op = "calculate_voltage_drop" ->
             returned = calculate_voltage_drop(call.calc)

ReturnsAsAlone ==
    \A id \in DOMAIN calls :
        calls[id].returned # None => AloneReturns(calls[id], Unwrap(calls[id].returned))

InputsUntouched ==
    \A id \in DOMAIN calls :
        /\ calls'[id].cables = calls[id].cables
        /\ calls'[id].cable = calls[id].cable
        /\ calls'[id].calc = calls[id].calc
        /\ calls'[id].op = calls[id].op

\* C24: whatever the interleaving of the steps of validate_all_cables,
\* validate_cable and calculate_voltage_drop calls over the same or different
\* inputs, a call that has returned has returned the findings, counts and
\* values (timestamp aside) it returns when run alone on its input, and no
\* step of any call changes a cable list or a request handed to a call.
C24_Stateless == []ReturnsAsAlone /\ [][InputsUntouched]_vars

\* two validate_all_cables calls over the same list, the second one returned
\* while the first one is halfway through its loop
C24_Witness ==
    /\ Len(calls) = 2
    /\ calls[1].op = "validate_all_cables"
    /\ calls[2].op = "validate_all_cables"
    /\ calls[1].cables = calls[2].cables
    /\ calls[1].pc = "loop"
    /\ calls[1].next = 2
    /\ calls[1].all_results # <<>>
    /\ calls[2].returned # None
    /\ Unwrap(calls[2].returned).results # <<>>

\* a calculation and a validation over different inputs, both returned
C24_WitnessDifferentInputs ==
    /\ Len(calls) = 2
    /\ calls[1].op = "calculate_voltage_drop"
    /\ calls[2].op = "validate_cable"
    /\ calls[1].returned # None
    /\ calls[2].returned # None
    /\ IsOk(Unwrap(calls[1].returned))

-----------------------------------------------------------------------------
(* Claims about the validation engine, checked under SpecValidation *)

SummaryDone == summary # None
Results == Unwrap(summary).results
CableDone == cableRun # None
Subject == cables[Unwrap(cableRun).index]
SubjectResults == Unwrap(cableRun).results

\* the positions of the cables routed on `route`
GroupOf(route) == {i \in 1..Len(cables) : cables[i].route = Some(route)}

\* the routes that form a group: present, not blank, shared by two or more
GroupRoutes ==
    {r \in {Unwrap(cables[i].route) : i \in {j \in 1..Len(cables) : cables[j].route # None}} :
        trim(r) # <<>> /\ Cardinality(GroupOf(r)) >= 2}

HasIS(i) ==
    cables[i].segregation_class # None /\ contains(Unwrap(cables[i].segregation_class), IS)

MixesIS(route) ==
    /\ \E i \in GroupOf(route) : HasIS(i)
    /\ \E i \in GroupOf(route) : ~HasIS(i)

IsIntrinsicSafetyFinding(f) == f.message.text = IntrinsicSafetyText

\* the findings of the summary that name cable i and are non-overridable
\* segregation errors
NonOverridableSegregation(i) ==
    {k \in 1..Len(Results) :
        /\ Results[k].cable_id = cables[i].id
        /\ Results[k].cable_tag = cables[i].tag
        /\ Results[k].validation_type = "SegregationViolation"
        /\ Results[k].severity = ValidationError
        /\ Results[k].override_allowed = FALSE}

\* C7: in a route group of two or more cables that mixes a cable whose class
\* contains "IS" with one whose class does not or is absent, every cable of the
\* group gets exactly one non-overridable SegregationViolation Error; no
\* intrinsic-safety finding is overridable; a group that does not mix gets no
\* intrinsic-safety finding.
C7_IntrinsicSafety ==
    SummaryDone =>
        /\ \A r \in GroupRoutes :
               MixesIS(r) =>
                   \A i \in GroupOf(r) :
                       /\ Cardinality(NonOverridableSegregation(i)) = 1
                       /\ \A k \in NonOverridableSegregation(i) :
                              /\ IsIntrinsicSafetyFinding(Results[k])
                              /\ Results[k].message.args = <<r>>
        /\ \A k \in 1..Len(Results) :
               IsIntrinsicSafetyFinding(Results[k]) =>
                   /\ Results[k].override_allowed = FALSE
                   /\ Results[k].severity = ValidationError
                   /\ Results[k].validation_type = "SegregationViolation"
                   /\ Results[k].message.args[1] \in GroupRoutes
                   /\ MixesIS(Results[k].message.args[1])

C7_Witness ==
    /\ SummaryDone
    /\ \E r \in GroupRoutes :
           /\ \E i \in GroupOf(r) : HasIS(i)
           /\ \E i \in GroupOf(r) : cables[i].segregation_class = None
           /\ \A i \in GroupOf(r) : Cardinality(NonOverridableSegregation(i)) = 1

DuplicateFindings(results) ==
    {k \in 1..Len(results) : results[k].validation_type = "DuplicateTag"}

\* C8: for a cable c with a non-blank tag, validate_cable(c, all_cables)
\* reports exactly one DuplicateTag finding (Error, overridable, field "tag")
\* if and only if some other element of all_cables, whatever its id, has a tag
\* equal to c's ignoring ASCII case; never more than one.
C8_DuplicateIff ==
    (CableDone /\ trim(Subject.tag) # <<>>) =>
        LET others == {j \in 1..Len(cables) : j # Unwrap(cableRun).index}
            duplicated ==
                \E j \in others :
                    to_ascii_lowercase(cables[j].tag) = to_ascii_lowercase(Subject.tag)
        IN  /\ Cardinality(DuplicateFindings(SubjectResults)) = (IF duplicated THEN 1 ELSE 0)
            /\ \A k \in DuplicateFindings(SubjectResults) :
                   /\ SubjectResults[k].severity = ValidationError
                   /\ SubjectResults[k].override_allowed = TRUE
                   /\ SubjectResults[k].field = Some("tag")

\* the summary holds a DuplicateTag finding for cable i
FlaggedDuplicate(i) ==
    \E k \in DuplicateFindings(Results) :
        Results[k].cable_id = cables[i].id /\ Results[k].cable_tag = cables[i].tag

SameTagIgnoringCase(i, j) ==
    to_ascii_lowercase(cables[i].tag) = to_ascii_lowercase(cables[j].tag)

\* C9: for two cables A and B of the same list with differing ids and tags
\* equal ignoring case, A has a DuplicateTag finding if and only if B has one.
C9_DuplicateSymmetric ==
    SummaryDone =>
        \A i, j \in 1..Len(cables) :
            (cables[i].id # cables[j].id /\ SameTagIgnoringCase(i, j)) =>
                (FlaggedDuplicate(i) <=> FlaggedDuplicate(j))

C9_Witness ==
    /\ SummaryDone
    /\ \E i, j \in 1..Len(cables) :
           /\ cables[i].id # cables[j].id
           /\ cables[i].tag # cables[j].tag
           /\ SameTagIgnoringCase(i, j)
           /\ FlaggedDuplicate(i)
           /\ FlaggedDuplicate(j)

OfType(results, validation_type) ==
    LET HasType(f) == f.validation_type = validation_type
    IN  SelectSeq(results, HasType)

OutOfRange(value, low, high) == value # None /\ (Unwrap(value) < low \/ Unwrap(value) > high)

\* the number of format rules the cable violates
FormatViolations(c) ==
    (IF OutOfRange(c.voltage, 0, 35000) THEN 1 ELSE 0)
        + (IF OutOfRange(c.length, 0, 10000) THEN 1 ELSE 0)
        + (IF OutOfRange(c.spare_percentage, 0, 100) THEN 1 ELSE 0)

\* C10: validate_cable returns the findings of the required-field, the
\* duplicate-tag and the field-format check, in that order, and no check's
\* finding suppresses another's: one RequiredField finding exactly for a blank
\* tag, the duplicate check's finding whenever that check reports one, and one
\* InvalidValue finding per violated format rule.
C10_IndependentChecks ==
    CableDone =>
        /\ SubjectResults =
               OfType(SubjectResults, "RequiredField")
                   \o OfType(SubjectResults, "DuplicateTag")
                   \o OfType(SubjectResults, "InvalidValue")
        /\ Len(OfType(SubjectResults, "RequiredField")) =
               (IF trim(Subject.tag) = <<>> THEN 1 ELSE 0)
        /\ OfType(SubjectResults, "DuplicateTag") = validate_duplicate_tag(Subject, cables)
        /\ Len(OfType(SubjectResults, "InvalidValue")) = FormatViolations(Subject)

C10_Witness ==
    /\ CableDone
    /\ trim(Subject.tag) = <<>>
    /\ Subject.length # None
    /\ Unwrap(Subject.length) < 0
    /\ Subject.voltage # None
    /\ Unwrap(Subject.voltage) > 35000
    /\ Len(SubjectResults) >= 3

RequiredFieldFindings(results) ==
    {k \in 1..Len(results) : results[k].validation_type = "RequiredField"}

C11_WitnessScenario ==
    /\ CableDone
    /\ Len(cables) = 1
    /\ trim(Subject.tag) = <<>>
    /\ SubjectResults =
           << [cable_id |-> Subject.id, cable_tag |-> Subject.tag,
               severity |-> "Error", validation_type |-> "RequiredField",
               message |-> Format("Cable tag is required", <<>>),
               field |-> <<"tag">>,
               suggested_fix |-> <<Format("Enter a unique cable tag (e.g., C-001)", <<>>)>>,
               override_allowed |-> FALSE] >>

\* the findings of validate_cable for the cables from position i on, in input
\* order, each cable checked against the complete list
RECURSIVE PerCableFindings(_)
PerCableFindings(i) ==
    IF i > Len(cables) THEN <<>>
    ELSE validate_cable(cables[i], cables) \o PerCableFindings(i + 1)

WithSeverity(results, severity) ==
    {k \in 1..Len(results) : results[k].severity = severity}

\* C12: validate_all_cables returns the findings of validate_cable(c, cables)
\* for every cable c in input order, followed by the segregation findings;
\* total_cables is the number of cables, error_count, warning_count and
\* info_count are the numbers of results of each severity, and they add up to
\* the number of results.
C12_Summary ==
    SummaryDone =>
        LET s == Unwrap(summary)
            per == PerCableFindings(1)
            n == Len(per)
        IN  /\ Len(Results) >= n
            /\ SubSeq(Results, 1, n) = per
            /\ \A k \in 1..n : Results[k].validation_type # "SegregationViolation"
            /\ \A k \in (n + 1)..Len(Results) :
                   Results[k].validation_type = "SegregationViolation"
            /\ \E order \in IterationOrders(route_keys(cables)) :
                   SubSeq(Results, n + 1, Len(Results)) =
                       validate_segregation_rules(cables, order)
            /\ s.total_cables = Len(cables)
            /\ s.error_count = Cardinality(WithSeverity(Results, ValidationError))
            /\ s.warning_count = Cardinality(WithSeverity(Results, ValidationWarning))
            /\ s.info_count = Cardinality(WithSeverity(Results, ValidationInfo))
            /\ s.error_count + s.warning_count + s.info_count = Len(Results)
            /\ CableDone =>
                   \E k \in 0..(n - Len(SubjectResults)) :
                       SubSeq(Results, k + 1, k + Len(SubjectResults)) = SubjectResults

\* two per-cable findings of the same cable id and tag, and segregation
\* findings after them
C12_Witness ==
    /\ SummaryDone
    /\ Len(cables) >= 2
    /\ Len(PerCableFindings(1)) >= 2
    /\ Len(Results) > Len(PerCableFindings(1))
    /\ Unwrap(summary).error_count >= 2
    /\ Unwrap(summary).warning_count >= 2
    /\ Unwrap(summary).error_count + Unwrap(summary).warning_count = Len(Results)

\* the findings of the summary that name cable i
FindingsOf(i) ==
    {k \in 1..Len(Results) :
        Results[k].cable_id = cables[i].id /\ Results[k].cable_tag = cables[i].tag}

IsPowerSignalFinding(f) ==
    f.message.text = "Power and signal cables in same route '{}' (NEC 725.136)"

PowerSignalFindings(i) == {k \in FindingsOf(i) : IsPowerSignalFinding(Results[k])}

HasFunction(i, functions) ==
    cables[i].function # None /\ Unwrap(cables[i].function) \in functions

PowerKind(i) == HasFunction(i, {"Power", "Lighting"})
SignalKind(i) == HasFunction(i, {"Signal", "Control", "Communication"})

MixesPowerSignal(route) ==
    /\ \E i \in GroupOf(route) : PowerKind(i)
    /\ \E i \in GroupOf(route) : SignalKind(i)

\* what C13 and its amendment share: a power/signal finding is a
\* SegregationViolation Warning with override_allowed = true that names a route
\* group holding both kinds, so a group lacking either kind receives none
PowerSignalFindingsWellFormed ==
    \A k \in 1..Len(Results) :
        IsPowerSignalFinding(Results[k]) =>
            /\ Results[k].severity = ValidationWarning
            /\ Results[k].validation_type = "SegregationViolation"
            /\ Results[k].override_allowed = TRUE
            /\ Results[k].message.args[1] \in GroupRoutes
            /\ MixesPowerSignal(Results[k].message.args[1])
            /\ \E i \in GroupOf(Results[k].message.args[1]) : k \in FindingsOf(i)

\* C13 as claimed: in a route group of two or more cables with a Power or
\* Lighting cable and a Signal, Control or Communication cable, every cable of
\* the group receives a power/signal SegregationViolation Warning with
\* override_allowed = true; a group lacking either kind receives none.
C13_PowerSignalAsClaimed ==
    SummaryDone =>
        /\ PowerSignalFindingsWellFormed
        /\ \A r \in GroupRoutes :
               MixesPowerSignal(r) =>
                   \A i \in GroupOf(r) : PowerSignalFindings(i) # {}

\* C13: in such a group every cable whose function is Power, Lighting, Signal,
\* Control or Communication receives exactly one power/signal
\* SegregationViolation Warning with override_allowed = true, and a cable of
\* the group with another function or none receives no power/signal finding;
\* a group lacking either kind receives none.
C13_PowerSignal ==
    SummaryDone =>
        /\ PowerSignalFindingsWellFormed
        /\ \A r \in GroupRoutes :
               MixesPowerSignal(r) =>
                   \A i \in GroupOf(r) :
                       Cardinality(PowerSignalFindings(i)) =
                           (IF PowerKind(i) \/ SignalKind(i) THEN 1 ELSE 0)

C13_Witness ==
    /\ SummaryDone
    /\ \E r \in GroupRoutes :
           /\ MixesPowerSignal(r)
           /\ \E i \in GroupOf(r) : HasFunction(i, {"Communication"})
           /\ \E i \in GroupOf(r) :
                  ~PowerKind(i) /\ ~SignalKind(i) /\ PowerSignalFindings(i) = {}
           /\ \E i \in GroupOf(r) : Cardinality(PowerSignalFindings(i)) = 1

IsVoltageFinding(f) ==
    f.message.text = "Low voltage and high voltage cables in same route '{}' (NEC 300.3)"

VoltageFindings(i) == {k \in FindingsOf(i) : IsVoltageFinding(Results[k])}

\* the group holds a cable of at most 50 V and a cable of more than 600 V
MixesLowHigh(route) ==
    /\ \E i \in GroupOf(route) :
           cables[i].voltage # None /\ Unwrap(cables[i].voltage) <= 50
    /\ \E i \in GroupOf(route) :
           cables[i].voltage # None /\ Unwrap(cables[i].voltage) > 600

\* C14: voltage-class separation fires for a route group if and only if the
\* group holds a cable with voltage <= 50 V and a cable with voltage > 600 V;
\* then every cable of the group, also one with no voltage, receives exactly
\* one SegregationViolation Error with override_allowed = true; any other mix
\* of classes yields no voltage-class finding.
C14_VoltageClass ==
    SummaryDone =>
        /\ \A r \in GroupRoutes :
               \A i \in GroupOf(r) :
                   Cardinality(VoltageFindings(i)) = (IF MixesLowHigh(r) THEN 1 ELSE 0)
        /\ \A k \in 1..Len(Results) :
               IsVoltageFinding(Results[k]) =>
                   /\ Results[k].severity = ValidationError
                   /\ Results[k].validation_type = "SegregationViolation"
                   /\ Results[k].override_allowed = TRUE
                   /\ Results[k].message.args[1] \in GroupRoutes
                   /\ MixesLowHigh(Results[k].message.args[1])
                   /\ \E i \in GroupOf(Results[k].message.args[1]) : k \in FindingsOf(i)

\* a group of a 50 V cable, a 601 V cable and a cable with no voltage, each
\* with one finding
C14_Witness ==
    /\ SummaryDone
    /\ \E r \in GroupRoutes :
           /\ \E i \in GroupOf(r) : cables[i].voltage = Some(50)
           /\ \E i \in GroupOf(r) : cables[i].voltage = Some(601)
           /\ \E i \in GroupOf(r) : cables[i].voltage = None
           /\ \A i \in GroupOf(r) : Cardinality(VoltageFindings(i)) = 1

\* a group of 50 V with 600 V, or of 51 V with 1001 V, without any finding
C14_WitnessOtherMix ==
    /\ SummaryDone
    /\ \E r \in GroupRoutes :
           /\ \/ {cables[i].voltage : i \in GroupOf(r)} = {Some(50), Some(600)}
              \/ {cables[i].voltage : i \in GroupOf(r)} = {Some(51), Some(1001)}
           /\ \A i \in GroupOf(r) : VoltageFindings(i) = {}

\* the incompatibility table as the claim lists it
ClaimedPairs ==
    {<<IS_Signal, c>> : c \in {Non_IS_Signal, Power_120VAC, Power_240VAC, Power_480VAC,
                                Power_600VAC}}
        \cup {<<Control_Power_24VDC, c>> : c \in {Power_480VAC, Power_600VAC}}

IsClassConflictFinding(f) ==
    f.message.text = "Incompatible segregation classes '{}' and '{}' in route '{}'"

ClassConflictFindings(i) == {k \in FindingsOf(i) : IsClassConflictFinding(Results[k])}

HasClassIn(i, classes) ==
    cables[i].segregation_class # None /\ Unwrap(cables[i].segregation_class) \in classes

\* both classes of the pair are present in the group, by exact name
PairPresent(route, pair) ==
    /\ \E i \in GroupOf(route) : HasClassIn(i, {pair[1]})
    /\ \E i \in GroupOf(route) : HasClassIn(i, {pair[2]})

\* the pairs present in the group that the class of cable i takes part in
ConflictsOf(route, i) ==
    {pair \in ClaimedPairs : PairPresent(route, pair) /\ HasClassIn(i, {pair[1], pair[2]})}

\* C15: for each pair of the incompatibility table with a cable of each class
\* in a route group (exact class names), exactly the cables of those two
\* classes each receive one SegregationViolation Error with override_allowed =
\* true whose message names both classes; a cable whose class takes part in k
\* conflicting pairs present in the group receives k such findings, cables of
\* other classes or without a class none.
C15_ClassConflicts ==
    SummaryDone =>
        /\ \A r \in GroupRoutes :
               \A i \in GroupOf(r) :
                   /\ Cardinality(ClassConflictFindings(i)) = Cardinality(ConflictsOf(r, i))
                   /\ \A pair \in ConflictsOf(r, i) :
                          Cardinality({k \in ClassConflictFindings(i) :
                                          Results[k].message.args = <<pair[1], pair[2], r>>}) = 1
        /\ \A k \in 1..Len(Results) :
               IsClassConflictFinding(Results[k]) =>
                   /\ Results[k].severity = ValidationError
                   /\ Results[k].validation_type = "SegregationViolation"
                   /\ Results[k].override_allowed = TRUE
                   /\ Results[k].message.args[3] \in GroupRoutes
                   /\ \E i \in GroupOf(Results[k].message.args[3]) : k \in FindingsOf(i)

\* Power 480VAC beside IS Signal and Control Power 24VDC: two findings for the
\* power cable, one for each of the others
C15_Witness ==
    /\ SummaryDone
    /\ \E r \in GroupRoutes :
           /\ \E i \in GroupOf(r) :
                  HasClassIn(i, {Power_480VAC}) /\ Cardinality(ClassConflictFindings(i)) = 2
           /\ \E i \in GroupOf(r) :
                  HasClassIn(i, {IS_Signal}) /\ Cardinality(ClassConflictFindings(i)) = 1
           /\ \E i \in GroupOf(r) :
                  /\ HasClassIn(i, {Control_Power_24VDC})
                  /\ Cardinality(ClassConflictFindings(i)) = 1

\* a class that only holds a table name, beside Power 480VAC: no finding
C15_WitnessExactName ==
    /\ SummaryDone
    /\ \E r \in GroupRoutes :
           /\ \E i \in GroupOf(r) : HasClassIn(i, {IS_Signal_padded})
           /\ \E i \in GroupOf(r) : HasClassIn(i, {Power_480VAC})
           /\ \A i \in GroupOf(r) : ClassConflictFindings(i) = {}

\* the format findings of the validate_cable call that name `field`
FormatFindings(field) ==
    {k \in 1..Len(SubjectResults) :
        /\ SubjectResults[k].validation_type = "InvalidValue"
        /\ SubjectResults[k].field = Some(field)}

\* the format findings on `field` are exactly `count` findings of that
\* severity and overridability
FormatOutcome(field, count, severity, override_allowed) ==
    /\ Cardinality(FormatFindings(field)) = count
    /\ \A k \in FormatFindings(field) :
           /\ SubjectResults[k].severity = severity
           /\ SubjectResults[k].override_allowed = override_allowed

Present(value) == value # None
Below(value, bound) == Present(value) /\ Unwrap(value) < bound
Above(value, bound) == Present(value) /\ Unwrap(value) > bound

\* C16: a present voltage outside [0, 35000] gives one Warning; a present
\* length < 0 gives one Error with override_allowed = false and a present
\* length > 10000 one Warning; a present spare_percentage outside [0, 100]
\* gives one Warning; the bounds 0, 35000, 10000 and 100 give nothing; the
\* three fields are checked independently and an absent field gives nothing.
C16_FieldFormats ==
    CableDone =>
        /\ IF Below(Subject.voltage, 0) \/ Above(Subject.voltage, 35000)
           THEN FormatOutcome("voltage", 1, ValidationWarning, TRUE)
           ELSE FormatFindings("voltage") = {}
        /\ IF Below(Subject.length, 0)
           THEN FormatOutcome("length", 1, ValidationError, FALSE)
           ELSE IF Above(Subject.length, 10000)
           THEN FormatOutcome("length", 1, ValidationWarning, TRUE)
           ELSE FormatFindings("length") = {}
        /\ IF Below(Subject.spare_percentage, 0) \/ Above(Subject.spare_percentage, 100)
           THEN FormatOutcome("spare_percentage", 1, ValidationWarning, TRUE)
           ELSE FormatFindings("spare_percentage") = {}
        /\ Len(OfType(SubjectResults, "InvalidValue")) =
               Cardinality(FormatFindings("voltage")) + Cardinality(FormatFindings("length"))
                   + Cardinality(FormatFindings("spare_percentage"))

\* all three fields out of range at once: three findings together
C16_Witness ==
    /\ CableDone
    /\ Subject.voltage = Some(-1)
    /\ Subject.length = Some(10001)
    /\ Subject.spare_percentage = Some(101)
    /\ Len(OfType(SubjectResults, "InvalidValue")) = 3

\* the bounds and an absent field: no finding
C16_WitnessBounds ==
    /\ CableDone
    /\ Subject.voltage = Some(35000)
    /\ Subject.length = Some(10000)
    /\ Subject.spare_percentage = None
    /\ trim(Subject.tag) # <<>>
    /\ SubjectResults = <<>>

IsSegregationFinding(f) == f.validation_type = "SegregationViolation"

\* the route a segregation finding names: the last argument of its message
RouteNamed(f) == f.message.args[Len(f.message.args)]

\* the segregation findings of the summary that name `route`, in order
SegregationFindingsOn(route) ==
    LET OnRoute(f) == IsSegregationFinding(f) /\ RouteNamed(f) = route
    IN  SelectSeq(Results, OnRoute)

\* the cable list without the cables of every other route
OnlyRoute(route) ==
    LET OnRoute(cable) == cable.route = Some(route)
    IN  SelectSeq(cables, OnRoute)

\* no other cable of the list has the identical route string
RouteUnshared(i) ==
    \/ cables[i].route = None
    \/ trim(Unwrap(cables[i].route)) = <<>>
    \/ \A j \in 1..Len(cables) : j # i => cables[j].route # cables[i].route

\* C17: segregation findings are produced only for groups of two or more
\* cables with the identical route string: a cable whose route is absent,
\* blank or used by no other cable never receives a SegregationViolation
\* finding, and the findings of one route group are those the group's cables
\* get when validated without the cables of the other routes.
C17_RouteGroupsOnly ==
    SummaryDone =>
        /\ \A i \in 1..Len(cables) :
               RouteUnshared(i) =>
                   \A k \in FindingsOf(i) : ~IsSegregationFinding(Results[k])
        /\ \A k \in 1..Len(Results) :
               IsSegregationFinding(Results[k]) =>
                   /\ RouteNamed(Results[k]) \in GroupRoutes
                   /\ \E i \in GroupOf(RouteNamed(Results[k])) : k \in FindingsOf(i)
        /\ \A r \in GroupRoutes :
               SegregationFindingsOn(r) = validate_segregation_rules(OnlyRoute(r), <<r>>)

\* a conflicting cable alone on "CT-01 " beside a flagged group on "CT-01", and
\* two conflicting cables on a blank route, without a finding
C17_Witness ==
    /\ SummaryDone
    /\ \E r \in GroupRoutes : SegregationFindingsOn(r) # <<>>
    /\ \E i \in 1..Len(cables) :
           /\ cables[i].route = Some(RouteCT01_padded)
           /\ RouteUnshared(i)
           /\ FindingsOf(i) = {}

C17_WitnessBlank ==
    /\ SummaryDone
    /\ \E i, j \in 1..Len(cables) :
           /\ cables[i].route = Some(RouteBlank)
           /\ cables[j].route = Some(RouteBlank)
           /\ HasClassIn(i, {IS_Signal})
           /\ HasClassIn(j, {Power_480VAC})
    /\ Results = <<>>

\* two cables with differing ids, the tags "C-001" and "c-001", both on route
\* "CT-01", one Power and one Signal
IsDuplicateAndSegregationScenario ==
    /\ Len(cables) = 2
    /\ cables[1].id # cables[2].id
    /\ {cables[1].tag, cables[2].tag} = {TagC001, Tagc001}
    /\ cables[1].route = Some(RouteCT01)
    /\ cables[2].route = Some(RouteCT01)
    /\ {cables[1].function, cables[2].function} = {Some("Power"), Some("Signal")}

\* C23: for the two cables "C-001" and "c-001" on route "CT-01", one Power and
\* one Signal, validate_all_cables reports for each cable a DuplicateTag Error
\* and a power/signal SegregationViolation Warning, and counts at least 2
\* errors, at least 2 warnings and 2 cables.
C23_DuplicateAndSegregation ==
    (SummaryDone /\ IsDuplicateAndSegregationScenario) =>
        /\ \A i \in 1..2 :
               /\ \E k \in FindingsOf(i) :
                      /\ Results[k].validation_type = "DuplicateTag"
                      /\ Results[k].severity = ValidationError
               /\ \E k \in PowerSignalFindings(i) :
                      /\ Results[k].validation_type = "SegregationViolation"
                      /\ Results[k].severity = ValidationWarning
        /\ Unwrap(summary).error_count >= 2
        /\ Unwrap(summary).warning_count >= 2
        /\ Unwrap(summary).total_cables = 2

\* the scenario, validated: four findings, two of them errors
C23_Witness ==
    /\ SummaryDone
    /\ IsDuplicateAndSegregationScenario
    /\ cables[1].tag = TagC001
    /\ cables[1].function = Some("Power")
    /\ Len(Results) = 4
    /\ Unwrap(summary).error_count = 2
    /\ Unwrap(summary).warning_count = 2

\* the cables of the list a finding names
CablesNamedBy(f) == {i \in 1..Len(cables) : cables[i].id = f.cable_id /\ cables[i].tag = f.cable_tag}

IsBlankTagFinding(f) ==
    /\ f.validation_type = "RequiredField"
    /\ f.field = Some("tag")
    /\ trim(f.cable_tag) = <<>>

IsNegativeLengthFinding(f) ==
    /\ f.validation_type = "InvalidValue"
    /\ f.field = Some("length")
    /\ \E i \in CablesNamedBy(f) : cables[i].length # None /\ Unwrap(cables[i].length) < 0

IsIntrinsicSafetySegregation(f) ==
    /\ f.validation_type = "SegregationViolation"
    /\ f.message.text = IntrinsicSafetyText

OverridePolicy(results) ==
    \A k \in 1..Len(results) :
        /\ ~results[k].override_allowed =>
               /\ results[k].severity = "Error"
               /\ \/ IsBlankTagFinding(results[k])
                  \/ IsNegativeLengthFinding(results[k])
                  \/ IsIntrinsicSafetySegregation(results[k])
        /\ results[k].severity = "Warning" => results[k].override_allowed
        /\ results[k].severity # "Info"
        /\ results[k].severity \in {"Error", "Warning"}

\* C28: in the results of validate_cable and of validate_all_cables a finding
\* that may not be overridden is an Error and is a RequiredField finding for a
\* blank tag, an InvalidValue finding for a negative length or the
\* intrinsic-safety SegregationViolation; every Warning may be overridden; no
\* finding has severity Info and info_count is 0.
C28_OverridePolicy ==
    /\ CableDone => OverridePolicy(SubjectResults)
    /\ SummaryDone =>
           /\ OverridePolicy(Results)
           /\ Unwrap(summary).info_count = 0

\* a summary with a final intrinsic-safety Error and an Error that may be
\* overridden
C28_Witness ==
    /\ SummaryDone
    /\ \E k \in 1..Len(Results) :
           IsIntrinsicSafetySegregation(Results[k]) /\ ~Results[k].override_allowed
    /\ \E k \in 1..Len(Results) : Results[k].severity = "Error" /\ Results[k].override_allowed

\* a summary with a final blank-tag Error and an overridable duplicate Error
C28_WitnessBlankTag ==
    /\ SummaryDone
    /\ \E k \in 1..Len(Results) : IsBlankTagFinding(Results[k]) /\ ~Results[k].override_allowed
    /\ \E k \in 1..Len(Results) :
           Results[k].validation_type = "DuplicateTag" /\ Results[k].override_allowed

\* a summary with a final negative-length Error and overridable Warnings
C28_WitnessLength ==
    /\ SummaryDone
    /\ \E k \in 1..Len(Results) :
           IsNegativeLengthFinding(Results[k]) /\ ~Results[k].override_allowed
    /\ \E k \in 1..Len(Results) : Results[k].severity = "Warning" /\ Results[k].override_allowed

\* every cable of the route group has one of the classes
GroupMadeOf(route, classes) == \A i \in GroupOf(route) : HasClassIn(i, classes)

C29_WitnessNonISAlone ==
    /\ SummaryDone
    /\ Len(cables) = 2
    /\ cables[1].route = Some(RouteCT01)
    /\ cables[2].route = Some(RouteCT01)
    /\ cables[1].segregation_class = Some(Non_IS_Signal)
    /\ cables[2].segregation_class = None
    /\ Len(SegregationFindingsOn(RouteCT01)) = 2

-----------------------------------------------------------------------------
(* Claims about the order of the input, checked under SpecReordered *)

\* the orders in which the same cables can be handed over
Reorderings(n) == {p \in [1..n -> 1..n] : \A i, j \in 1..n : p[i] = p[j] => i = j}

Permuted(p) == [i \in 1..Len(cables) |-> cables[p[i]]]

\* how often each finding occurs in `results`
Multiset(results) ==
    [f \in {results[k] : k \in 1..Len(results)} |->
        Cardinality({k \in 1..Len(results) : results[k] = f})]

\* C30: for every permutation of the cable list and every order in which the
\* route groups are visited, validate_all_cables returns the same findings as
\* a multiset (cable id and tag, type, severity, message, field, suggested fix
\* and override flag, with the same multiplicity) and the same error_count,
\* warning_count, info_count and total_cables.
C30_OrderInsensitive ==
    SummaryDone =>
        \A p \in Reorderings(Len(cables)) :
            \A order \in IterationOrders(route_keys(cables)) :
                LET other == validate_all_cables(Permuted(p), order)
                IN  /\ Multiset(other.results) = Multiset(Results)
                    /\ other.error_count = Unwrap(summary).error_count
                    /\ other.warning_count = Unwrap(summary).warning_count
                    /\ other.info_count = Unwrap(summary).info_count
                    /\ other.total_cables = Unwrap(summary).total_cables

\* a validated list of four cables with segregation findings on both routes,
\* whose findings come in another sequence for the reversed list
C30_Witness ==
    /\ SummaryDone
    /\ Len(cables) = 4
    /\ \E k \in 1..Len(Results) :
           IsSegregationFinding(Results[k]) /\ RouteNamed(Results[k]) = RouteCT01
    /\ \E k \in 1..Len(Results) :
           IsSegregationFinding(Results[k]) /\ RouteNamed(Results[k]) = RouteCT02
    /\ \E order \in IterationOrders(route_keys(cables)) :
           validate_all_cables([i \in 1..4 |-> cables[5 - i]], order).results # Results

=============================================================================
